---- MODULE Spec2Model ----
(***************************************************************************)
(* Model of the OnCalls MCP adapter: the token store (TokenManager), the   *)
(* upstream session (OncallsClient), the tool registry and dispatch        *)
(* endpoint (createMcpServer), the authentication middleware               *)
(* (authMiddleware) and the transport registry of the remote server.       *)
(***************************************************************************)
EXTENDS Integers, Sequences, FiniteSets, TLC

(***************************************************************************)
(* JavaScript values.  Strings stand for themselves; the three values      *)
(* below stand for null, undefined and an absent carrier.                  *)
(***************************************************************************)
JsNull == "<null>"
Undef == "<undefined>"

\* JavaScript truthiness of a string-or-missing value (`if (x)`, `a || b`).
Truthy(v) == v \notin {JsNull, Undef, ""}

\* the single element of a one-element set; {F(r) : r \in {e}} names the value
\* of e once, as a local constant of the source does
The(S) == CHOOSE v \in S : TRUE

\* a || b
OrElse(a, b) == IF Truthy(a) THEN a ELSE b

(***************************************************************************)
(* Bounds of the model.                                                    *)
(***************************************************************************)
\* number of session identifiers the transports may generate
MaxSessions == 2
\* number of times the clock advances in the session specification
MaxTicks == 2
\* number of OAuth flows /oauth/start begins
MaxFlows == 2
\* number of tool invocations received while others are in progress
MaxCalls == 2

(***************************************************************************)
(* TokenManager                                                            *)
(***************************************************************************)
\* default lifetime of a token pair, in seconds
DefaultExpiresInSeconds == 3600
\* refresh this many seconds before expiry
RefreshBufferSeconds == 60
MsPerSecond == 1000

refreshBufferMs == RefreshBufferSeconds * MsPerSecond

\* tokenData === null
NoTokenData == [set |-> FALSE, accessToken |-> JsNull, refreshToken |-> JsNull, expiresAt |-> 0]

\* setTokens(accessToken, refreshToken, expiresInSeconds = 3600); a caller that
\* leaves the last argument out passes DefaultExpiresInSeconds
setTokens(accessToken, refreshToken, expiresInSeconds, now) ==
    [set |-> TRUE, accessToken |-> accessToken, refreshToken |-> refreshToken,
     expiresAt |-> now + expiresInSeconds * MsPerSecond]

\* updateAccessToken that creates the token data when there is none
updateAccessTokenOrCreate(td, accessToken, expiresInSeconds, now) ==
    [thrown |-> FALSE,
     td |-> [td EXCEPT !.set = TRUE, !.accessToken = accessToken,
                       !.expiresAt = now + expiresInSeconds * MsPerSecond]]

\* the result of updateAccessToken: thrown is TRUE when there is no token data
updateAccessToken(td, accessToken, expiresInSeconds, now) ==
    IF ~td.set
    THEN [thrown |-> TRUE, td |-> td]
    ELSE [thrown |-> FALSE,
          td |-> [td EXCEPT !.accessToken = accessToken,
                            !.expiresAt = now + expiresInSeconds * MsPerSecond]]

\* this.tokenData?.accessToken ?? null
getAccessToken(td) == IF td.set /\ td.accessToken # Undef THEN td.accessToken ELSE JsNull

\* this.tokenData?.refreshToken ?? null
getRefreshToken(td) == IF td.set /\ td.refreshToken # Undef THEN td.refreshToken ELSE JsNull

\* needsRefresh with > in the place of >=
needsRefreshStrict(td, now) ==
    IF ~td.set THEN TRUE ELSE now > td.expiresAt - refreshBufferMs

needsRefresh(td, now) ==
    IF ~td.set THEN TRUE ELSE now >= td.expiresAt - refreshBufferMs

hasTokens(td) == td.set /\ td.accessToken # JsNull

\* clear()
clear(td) == NoTokenData

(***************************************************************************)
(* Upstream answers.  One record shape serves every endpoint (login,       *)
(* refresh, issuer token endpoint, userinfo, API); a field an endpoint     *)
(* does not use is Undef.                                                  *)
(*   kind: "2xx" | "http_error" | "network_error" (fetch rejects)          *)
(*   expires_in: the lifetime a token response announces, in seconds       *)
(***************************************************************************)
NoData ==
    [present |-> FALSE, docid |-> 0, GroupId |-> 0, Admin |-> FALSE, viewReqs |-> FALSE,
     email |-> Undef]

Profile(docid, group, admin, viewReqs, email) ==
    [present |-> TRUE, docid |-> docid, GroupId |-> group, Admin |-> admin, viewReqs |-> viewReqs,
     email |-> email]

Answer(kind, status, token, refresh_token, access_token, data, message, statusLine) ==
    [kind |-> kind, status |-> status, token |-> token, refresh_token |-> refresh_token,
     access_token |-> access_token, data |-> data, message |-> message,
     statusLine |-> statusLine, expires_in |-> 0]

\* the body a with a lifetime in seconds (expires_in; 0 stands for a body without)
Lasting(a, seconds) == [a EXCEPT !.expires_in = seconds]

NetworkError == Answer("network_error", Undef, Undef, Undef, Undef, NoData, Undef, Undef)

\* a non-2xx response; message is Undef when the body is not parseable JSON
HttpError(message, statusLine) ==
    Answer("http_error", Undef, Undef, Undef, Undef, NoData, message, statusLine)

\* a 2xx login response: {status, message, token, refresh_token, data}
LoginBody(status, token, refresh_token, data, message) ==
    Answer("2xx", status, token, refresh_token, Undef, data, message, Undef)

\* a 2xx refresh response: {access_token?, token?}
RefreshBody(access_token, token) ==
    Answer("2xx", Undef, token, Undef, access_token, NoData, Undef, Undef)

\* a 2xx response of the issuer's token endpoint: {access_token, refresh_token?}
OAuthTokenBody(access_token, refresh_token) ==
    Answer("2xx", Undef, Undef, refresh_token, access_token, NoData, Undef, Undef)

\* a 2xx userinfo response: {sub, group_id, is_admin}
UserInfoBody(data) ==
    Answer("2xx", Undef, Undef, Undef, Undef, data, Undef, Undef)

\* a 2xx API response
ApiBody == Answer("2xx", Undef, Undef, Undef, Undef, NoData, Undef, Undef)

(***************************************************************************)
(* Thrown values and error messages.  A message is the sequence of the     *)
(* parts it was concatenated from.                                         *)
(***************************************************************************)
NoError == [type |-> "none", code |-> "none", message |-> <<>>]

Error(message) == [type |-> "Error", code |-> "none", message |-> message]

\* what fetch rejects with
FetchFailed == [type |-> "TypeError", code |-> "none", message |-> <<"fetch failed">>]

\* reading a property of undefined
PropertyOfUndefined ==
    [type |-> "TypeError", code |-> "none",
     message |-> <<"Cannot read properties of undefined">>]

OAuthSessionExpired == Error(<<"OAuth session expired. Please re-authenticate.">>)

(***************************************************************************)
(* OncallsClient                                                           *)
(***************************************************************************)
\* _userContext === null
NoUserContext ==
    [set |-> FALSE, docId |-> 0, groupId |-> 0, username |-> "", isAdmin |-> FALSE,
     viewReqs |-> FALSE]

\* new OncallsClient(config)
NewOncallsClient(username, password) ==
    [username |-> username, password |-> password, oauth |-> FALSE,
     tokenManager |-> NoTokenData, userContext |-> NoUserContext]

\* The outcome of an asynchronous method: the client as the method left it,
\* whether the promise resolved, the value it rejected with, and the
\* upstream calls it made, in order.
Resolved(c, calls) == [c |-> c, ok |-> TRUE, err |-> NoError, calls |-> calls]

Rejected(c, err, calls) == [c |-> c, ok |-> FALSE, err |-> err, calls |-> calls]

\* one upstream call: the endpoint, the credential presented (the username for
\* a login, the token otherwise) and the answer received
Call(ep, cred, ans) == [ep |-> ep, cred |-> cred, ans |-> ans]

\* r with the calls made before it put in front
After(calls, r) == [r EXCEPT !.calls = calls \o r.calls]

\* parseError giving the status line whatever the body holds
parseErrorStatusLine(a) == a.statusLine

\* parseError(response).message
parseError(a) == OrElse(a.message, a.statusLine)

isAuthenticated(c) == c.userContext.set /\ hasTokens(c.tokenManager)

\* The number of calls to endpoint ep in a call log.
CountCalls(calls, ep) == Cardinality({i \in 1..Len(calls) : calls[i].ep = ep})

\* authenticate without the check of data.status
authenticateIgnoringStatus(c, now, a) ==
    LET call == <<Call("login", c.username, a)>> IN
    IF a.kind = "network_error" THEN Rejected(c, FetchFailed, call)
    ELSE IF a.kind # "2xx"
    THEN Rejected(c, Error(<<"Authentication failed: ", parseError(a)>>), call)
    ELSE LET stored == [c EXCEPT !.tokenManager =
                            setTokens(a.token, a.refresh_token, DefaultExpiresInSeconds, now)] IN
         IF ~a.data.present
         THEN Rejected(stored, PropertyOfUndefined, call)
         ELSE Resolved([stored EXCEPT !.userContext =
                           [set |-> TRUE, docId |-> a.data.docid, groupId |-> a.data.GroupId,
                            username |-> c.username, isAdmin |-> a.data.Admin,
                            viewReqs |-> a.data.viewReqs]],
                       call)

\* authenticate(): a is the login endpoint's answer
authenticate(c, now, a) ==
    LET call == <<Call("login", c.username, a)>> IN
    IF a.kind = "network_error" THEN Rejected(c, FetchFailed, call)
    ELSE IF a.kind # "2xx"
    THEN Rejected(c, Error(<<"Authentication failed: ", parseError(a)>>), call)
    ELSE IF a.status # "true"
    THEN Rejected(c, Error(<<"Authentication failed: ", OrElse(a.message, "Unknown error")>>),
                  call)
    ELSE LET stored == [c EXCEPT !.tokenManager =
                            setTokens(a.token, a.refresh_token, DefaultExpiresInSeconds, now)] IN
         IF ~a.data.present
         THEN Rejected(stored, PropertyOfUndefined, call)
         ELSE Resolved([stored EXCEPT !.userContext =
                           [set |-> TRUE, docId |-> a.data.docid, groupId |-> a.data.GroupId,
                            username |-> c.username, isAdmin |-> a.data.Admin,
                            viewReqs |-> a.data.viewReqs]],
                       call)

\* fromOAuthTokens returning the client without Identity when the userinfo
\* lookup fails
fromOAuthTokensWithoutIdentity(accessToken, refreshToken, now, a) ==
    LET client == [NewOncallsClient("", "") EXCEPT
                       !.oauth = TRUE,
                       !.tokenManager = setTokens(accessToken, refreshToken,
                                                 DefaultExpiresInSeconds, now)]
        call == <<Call("userinfo", accessToken, a)>>
    IN  IF a.kind # "2xx" THEN Resolved(client, call)
        ELSE Resolved([client EXCEPT !.userContext =
                          [set |-> TRUE, docId |-> a.data.docid, groupId |-> a.data.GroupId,
                           username |-> a.data.email, isAdmin |-> a.data.Admin,
                           viewReqs |-> a.data.Admin]],
                      call)

\* OncallsClient.fromOAuthTokens(): a is the userinfo endpoint's answer.
\* When the promise rejects no client is returned.
fromOAuthTokens(accessToken, refreshToken, now, a) ==
    LET client == [NewOncallsClient("", "") EXCEPT
                       !.oauth = TRUE,
                       !.tokenManager = setTokens(accessToken, refreshToken,
                                                 DefaultExpiresInSeconds, now)]
        call == <<Call("userinfo", accessToken, a)>>
    IN  IF a.kind = "network_error" THEN Rejected(client, FetchFailed, call)
        ELSE IF a.kind # "2xx"
        THEN Rejected(client, Error(<<"Failed to get user info: ", a.statusLine>>), call)
        ELSE Resolved([client EXCEPT !.userContext =
                          [set |-> TRUE, docId |-> a.data.docid, groupId |-> a.data.GroupId,
                           username |-> a.data.email, isAdmin |-> a.data.Admin,
                           viewReqs |-> a.data.Admin]],
                      call)

\* refreshOAuthToken giving the token the lifetime the issuer announces
refreshOAuthTokenHonouringLifetime(c, now, a) ==
    LET refreshToken == getRefreshToken(c.tokenManager)
        call == <<Call("oauth_token", refreshToken, a)>>
        expiresInSeconds == IF a.expires_in > 0 THEN a.expires_in ELSE DefaultExpiresInSeconds
    IN  IF ~c.oauth THEN Rejected(c, Error(<<"OAuth not configured">>), <<>>)
        ELSE IF ~Truthy(refreshToken)
        THEN Rejected(c, Error(<<"No refresh token available">>), <<>>)
        ELSE IF a.kind # "2xx"
        THEN Rejected(c, OAuthSessionExpired, call)
        ELSE LET upd == updateAccessToken(c.tokenManager, a.access_token,
                                          expiresInSeconds, now) IN
             IF upd.thrown THEN Rejected(c, OAuthSessionExpired, call)
             ELSE Resolved([c EXCEPT !.tokenManager =
                               IF Truthy(a.refresh_token)
                               THEN setTokens(a.access_token, a.refresh_token,
                                              expiresInSeconds, now)
                               ELSE upd.td],
                           call)

\* refreshOAuthToken(): a is the answer of the issuer's token endpoint
refreshOAuthToken(c, now, a) ==
    LET refreshToken == getRefreshToken(c.tokenManager)
        call == <<Call("oauth_token", refreshToken, a)>>
    IN  IF ~c.oauth THEN Rejected(c, Error(<<"OAuth not configured">>), <<>>)
        ELSE IF ~Truthy(refreshToken)
        THEN Rejected(c, Error(<<"No refresh token available">>), <<>>)
        ELSE IF a.kind # "2xx"
        THEN Rejected(c, OAuthSessionExpired, call)
        ELSE LET upd == updateAccessToken(c.tokenManager, a.access_token,
                                          DefaultExpiresInSeconds, now) IN
             IF upd.thrown THEN Rejected(c, OAuthSessionExpired, call)
             ELSE Resolved([c EXCEPT !.tokenManager =
                               IF Truthy(a.refresh_token)
                               THEN setTokens(a.access_token, a.refresh_token,
                                              DefaultExpiresInSeconds, now)
                               ELSE upd.td],
                           call)

\* The body of the try block of refreshToken() for a password session.
refreshTry(c, now, ans) ==
    LET refreshToken == getRefreshToken(c.tokenManager)
        r == ans.refresh
        call == <<Call("refresh", refreshToken, r)>>
        newToken == OrElse(r.access_token, r.token)
    IN  IF r.kind = "network_error" THEN Rejected(c, FetchFailed, call)
        ELSE IF r.kind # "2xx" THEN After(call, authenticate(c, now, ans.login[1]))
        ELSE IF Truthy(newToken)
        THEN LET upd == updateAccessToken(c.tokenManager, newToken,
                                          DefaultExpiresInSeconds, now) IN
             IF upd.thrown
             THEN Rejected(c, Error(<<"No token data available. Call setTokens first.">>), call)
             ELSE Resolved([c EXCEPT !.tokenManager = upd.td], call)
        ELSE After(call, authenticate(c, now, ans.login[1]))

\* refreshToken without the catch that logs in again
refreshTokenWithoutFallback(c, now, ans) ==
    IF ~Truthy(getRefreshToken(c.tokenManager))
    THEN IF c.oauth THEN Rejected(c, OAuthSessionExpired, <<>>)
         ELSE authenticate(c, now, ans.login[1])
    ELSE IF c.oauth THEN refreshOAuthToken(c, now, ans.oauth)
    ELSE refreshTry(c, now, ans)

\* refreshToken logging in when an OAuth session holds no refresh token
refreshTokenLoggingIn(c, now, ans) ==
    IF ~Truthy(getRefreshToken(c.tokenManager)) THEN authenticate(c, now, ans.login[1])
    ELSE IF c.oauth THEN refreshOAuthToken(c, now, ans.oauth)
    ELSE refreshTry(c, now, ans)

\* refreshToken using the password refresh endpoint for an OAuth session too
refreshTokenByPassword(c, now, ans) ==
    IF ~Truthy(getRefreshToken(c.tokenManager))
    THEN IF c.oauth THEN Rejected(c, OAuthSessionExpired, <<>>)
         ELSE authenticate(c, now, ans.login[1])
    ELSE refreshTry(c, now, ans)

\* refreshToken(): ans.refresh, ans.oauth and ans.login[i] are the answers of the
\* refresh endpoint, of the issuer and of the i-th login of this call
refreshToken(c, now, ans) ==
    IF ~Truthy(getRefreshToken(c.tokenManager))
    THEN IF c.oauth THEN Rejected(c, OAuthSessionExpired, <<>>)
         ELSE authenticate(c, now, ans.login[1])
    ELSE IF c.oauth THEN refreshOAuthToken(c, now, ans.oauth)
    ELSE The({IF try.ok THEN try
              ELSE \* catch { await this.authenticate() }
                   After(try.calls,
                         authenticate(try.c, now,
                                      ans.login[CountCalls(try.calls, "login") + 1]))
              : try \in {refreshTry(c, now, ans)}})

ensureAuthenticated(c, now, ans) ==
    IF ~hasTokens(c.tokenManager)
    THEN IF c.oauth THEN Rejected(c, OAuthSessionExpired, <<>>)
         ELSE authenticate(c, now, ans.login[1])
    ELSE IF needsRefresh(c.tokenManager, now) THEN refreshToken(c, now, ans)
    ELSE Resolved(c, <<>>)

\* get() sending its API request whatever ensureAuthenticated() did
requestWhateverAuth(c, now, ans) ==
    The({LET call == <<Call("api", getAccessToken(auth.c.tokenManager), ans.api)>> IN
         After(auth.calls,
               IF ans.api.kind = "network_error" THEN Rejected(auth.c, FetchFailed, call)
               ELSE IF ans.api.kind # "2xx"
               THEN Rejected(auth.c, Error(<<"API request failed: ", parseError(ans.api)>>), call)
               ELSE Resolved(auth.c, call))
         : auth \in {ensureAuthenticated(c, now, ans)}})

\* get(), post() and put(): ans.api is the answer of the API endpoint
request(c, now, ans) ==
    The({IF ~auth.ok THEN auth
         ELSE LET call == <<Call("api", getAccessToken(auth.c.tokenManager), ans.api)>> IN
              After(auth.calls,
                    IF ans.api.kind = "network_error" THEN Rejected(auth.c, FetchFailed, call)
                    ELSE IF ans.api.kind # "2xx"
                    THEN Rejected(auth.c,
                                  Error(<<"API request failed: ", parseError(ans.api)>>), call)
                    ELSE Resolved(auth.c, call))
         : auth \in {ensureAuthenticated(c, now, ans)}})

(***************************************************************************)
(* Error conversion (toMcpError)                                           *)
(***************************************************************************)
McpError(code, message) == [type |-> "McpError", code |-> code, message |-> message]

\* The message parts of the model that contain a pattern toMcpError looks for
\* (String.prototype.includes is case sensitive).
PartsContaining ==
    {<<"Authentication failed: ", "Authentication failed">>,
     <<"HTTP 401: Unauthorized", "401">>,
     <<"HTTP 403: Forbidden", "403">>,
     <<"HTTP 404: Not Found", "404">>,
     <<"User not found", "not found">>}

\* error.message.includes(pattern)
Includes(message, pattern) ==
    \E i \in 1..Len(message) : <<message[i], pattern>> \in PartsContaining

toMcpError(error) ==
    IF error.type = "McpError" THEN error
    ELSE IF error.type \in {"Error", "TypeError"}
    THEN IF Includes(error.message, "Authentication failed") \/ Includes(error.message, "401")
         THEN McpError("InvalidRequest",
                       <<"Authentication failed. Check your OnCalls credentials.">>)
         ELSE IF Includes(error.message, "403") \/ Includes(error.message, "permission")
         THEN McpError("InvalidRequest",
                       <<"Permission denied. You may not have access to this resource.">>)
         ELSE IF Includes(error.message, "404") \/ Includes(error.message, "not found")
         THEN McpError("InvalidRequest", <<"Resource not found.">>)
         ELSE IF Includes(error.message, "Invalid date")
         THEN McpError("InvalidParams", error.message)
         ELSE McpError("InternalError", error.message)
    ELSE McpError("InternalError", <<"An unexpected error occurred">>)

(***************************************************************************)
(* Tool registry                                                           *)
(***************************************************************************)
Tool(name, adminOnly) == [name |-> name, adminOnly |-> adminOnly]

allTools ==
    << Tool("get-oncall-schedule", FALSE),
       Tool("get-my-schedule", FALSE),
       Tool("get-physician-contact", FALSE),
       Tool("get-shift-types", FALSE),
       Tool("get-my-requests", FALSE),
       Tool("list-pending-requests", TRUE),
       Tool("list-pending-volunteers", TRUE),
       Tool("list-members", TRUE) >>

NotAdminOnly(tool) == ~tool.adminOnly

\* getToolsForUser without the filter
getAllTools(isAdmin) == allTools

\* getToolsForUser filtering for administrators too
getUserTools(isAdmin) == SelectSeq(allTools, NotAdminOnly)

getToolsForUser(isAdmin) ==
    IF isAdmin THEN allTools ELSE SelectSeq(allTools, NotAdminOnly)

\* allTools.find(...) === undefined
NoTool == Tool(Undef, FALSE)

findTool(name) ==
    IF \E i \in 1..Len(allTools) : allTools[i].name = name
    THEN allTools[CHOOSE i \in 1..Len(allTools) :
                      /\ allTools[i].name = name
                      /\ \A j \in 1..(i - 1) : allTools[j].name # name]
    ELSE NoTool

\* tool.handler(client, args): each handler makes one client.get(); the
\* handlers of the admin tools check the admin flag themselves first, and
\* list-pending-volunteers turns a failed call into a result.
handler(tool, c, now, ans) ==
    IF tool.adminOnly /\ ~c.userContext.isAdmin
    THEN Rejected(c, McpError("InvalidRequest", <<"Admin access required. ">>), <<>>)
    ELSE The({IF ~r.ok /\ tool.name = "list-pending-volunteers"
              THEN Resolved(r.c, r.calls)
              ELSE r
              : r \in {request(c, now, ans)}})

(***************************************************************************)
(* The tool-dispatch endpoint (createMcpServer)                            *)
(***************************************************************************)
\* What a request handler hands to the protocol layer: a result or a thrown
\* value, with the client as the handler left it, the upstream calls made
\* and whether the tool's handler was run.
Reply(kind, tools, thrown, c, calls, ran) ==
    [kind |-> kind, tools |-> tools, thrown |-> thrown, c |-> c, calls |-> calls,
     handlerRan |-> ran]

NotAuthenticated == Error(<<"Not authenticated. Call authenticate() first.">>)

\* the names of a list of tools
Names(tools) == [i \in 1..Len(tools) |-> tools[i].name]

\* the ListToolsRequestSchema handler
ListTools(c) ==
    IF ~c.userContext.set
    THEN Reply("error", <<>>, NotAuthenticated, c, <<>>, FALSE)
    ELSE Reply("result", Names(getToolsForUser(c.userContext.isAdmin)), NoError, c, <<>>,
               FALSE)

\* the CallToolRequestSchema handler without its check of tool.adminOnly
CallToolUngated(c, name, now, ans) ==
    The({IF tool = NoTool
         THEN Reply("error", <<>>, toMcpError(Error(<<"Unknown tool: ", name>>)), c, <<>>,
                    FALSE)
         ELSE The({IF r.ok THEN Reply("result", <<>>, NoError, r.c, r.calls, TRUE)
                   ELSE Reply("error", <<>>, toMcpError(r.err), r.c, r.calls, TRUE)
                   : r \in {handler(tool, c, now, ans)}})
         : tool \in {findTool(name)}})

\* the CallToolRequestSchema handler rethrowing what the tool's handler threw
CallToolRethrowing(c, name, now, ans) ==
    The({IF tool = NoTool
         THEN Reply("error", <<>>, toMcpError(Error(<<"Unknown tool: ", name>>)), c, <<>>,
                    FALSE)
         ELSE IF tool.adminOnly /\ ~c.userContext.set
         THEN Reply("error", <<>>, NotAuthenticated, c, <<>>, FALSE)
         ELSE IF tool.adminOnly /\ ~c.userContext.isAdmin
         THEN Reply("error", <<>>,
                    toMcpError(Error(<<"Admin access required for this tool">>)),
                    c, <<>>, FALSE)
         ELSE The({IF r.ok THEN Reply("result", <<>>, NoError, r.c, r.calls, TRUE)
                   ELSE Reply("error", <<>>, r.err, r.c, r.calls, TRUE)
                   : r \in {handler(tool, c, now, ans)}})
         : tool \in {findTool(name)}})

\* the CallToolRequestSchema handler
CallTool(c, name, now, ans) ==
    The({IF tool = NoTool
         THEN Reply("error", <<>>, toMcpError(Error(<<"Unknown tool: ", name>>)), c, <<>>,
                    FALSE)
         ELSE IF tool.adminOnly /\ ~c.userContext.set
         THEN \* the userContext getter throws
              Reply("error", <<>>, NotAuthenticated, c, <<>>, FALSE)
         ELSE IF tool.adminOnly /\ ~c.userContext.isAdmin
         THEN Reply("error", <<>>,
                    toMcpError(Error(<<"Admin access required for this tool">>)),
                    c, <<>>, FALSE)
         ELSE The({IF r.ok THEN Reply("result", <<>>, NoError, r.c, r.calls, TRUE)
                   ELSE Reply("error", <<>>, toMcpError(r.err), r.c, r.calls, TRUE)
                   : r \in {handler(tool, c, now, ans)}})
         : tool \in {findTool(name)}})

(***************************************************************************)
(* Configuration (process.env, OAUTH_CONFIG)                               *)
(***************************************************************************)
OAuthScopes ==
    "read:schedule read:members read:requests read:profile admin:requests admin:members"

\* OAUTH_CONFIG.scopes.split(' ')
ScopeList ==
    <<"read:schedule", "read:members", "read:requests", "read:profile", "admin:requests",
      "admin:members">>

DefaultServerUrl == "https://mcp.oncalls.com"

\* process.env.MCP_SERVER_URL || 'https://mcp.oncalls.com'
ServerUrl(env) == OrElse(env.MCP_SERVER_URL, DefaultServerUrl)

\* the document served at /.well-known/oauth-protected-resource
protectedResourceHandler(env) ==
    [resource |-> ServerUrl(env),
     authorization_servers |-> <<"https://v3.oncalls.com">>,
     scopes_supported |-> ScopeList,
     bearer_methods_supported |-> <<"header">>]

(***************************************************************************)
(* Bearer tokens.  A token of the model is described by what the code      *)
(* computes from it: whether it splits into three dot-separated segments,  *)
(* and the first two ':'-separated fields of its base64 decoding.          *)
(***************************************************************************)
BearerTokens ==
    {[text |-> "eyJhbGci.eyJzdWIi.c2ln", segments |-> 3,
      username |-> "{\"alg\"", password |-> "\"HS256\"}"],
     [text |-> "YWxp.Y2U6.cHc=", segments |-> 3, username |-> "alice", password |-> "pw"],
     [text |-> "Ym9iOnB3", segments |-> 1, username |-> "bob", password |-> "pw"],
     [text |-> "b3BhcXVl", segments |-> 1, username |-> "opaque", password |-> Undef]}

\* req.headers.authorization: absent, another scheme, or `Bearer <token>`
NoAuthorization == [scheme |-> Undef, token |-> [text |-> Undef, segments |-> 0,
                                                  username |-> Undef, password |-> Undef]]

BasicAuthorization == [NoAuthorization EXCEPT !.scheme = "Basic"]

Bearer(token) == [scheme |-> "Bearer", token |-> token]

(***************************************************************************)
(* authMiddleware.  The middleware is a sequence of branches; each takes   *)
(* the state the previous one left (returned, thrown, calls of next(),     *)
(* responses written, the client attached to the request) and does nothing *)
(* once the function has returned or thrown to the outer catch.            *)
(***************************************************************************)
NoClient == NewOncallsClient(Undef, Undef)

MiddlewareStart ==
    [returned |-> FALSE, thrown |-> FALSE, err |-> NoError, nextCalls |-> 0,
     responses |-> <<>>, hasClient |-> FALSE, client |-> NoClient,
     attempts |-> <<>>, calls |-> <<>>]

Running(st) == ~st.returned /\ ~st.thrown

Response(status, wwwAuthenticate, error) ==
    [status |-> status, wwwAuthenticate |-> wwwAuthenticate, error |-> error]

NoHeader == [scheme |-> Undef, resource_metadata |-> <<>>, scope |-> Undef, error |-> Undef]

\* one tried method: its number in the precedence order, and whether it succeeded
Attempt(method, ok) == [method |-> method, ok |-> ok]

\* Accept without its `return`: the function goes on after next()
AcceptAndGoOn(st, method, r) ==
    [st EXCEPT !.hasClient = TRUE, !.client = r.c, !.nextCalls = @ + 1,
               !.attempts = Append(@, Attempt(method, TRUE)),
               !.calls = @ \o r.calls]

\* req.oncallsClient = client; next(); return
Accept(st, method, r) ==
    [st EXCEPT !.hasClient = TRUE, !.client = r.c, !.nextCalls = @ + 1,
               !.returned = TRUE, !.attempts = Append(@, Attempt(method, TRUE)),
               !.calls = @ \o r.calls]

\* Swallow without its try/catch: the failure reaches the outer catch
Rethrow(st, method, r) ==
    [st EXCEPT !.thrown = TRUE, !.err = r.err,
               !.attempts = Append(@, Attempt(method, FALSE)), !.calls = @ \o r.calls]

\* the failure is caught where it happened and the function goes on
Swallow(st, method, r) ==
    [st EXCEPT !.attempts = Append(@, Attempt(method, FALSE)), !.calls = @ \o r.calls]

\* Throw inside a try of its own with an empty catch
ThrowCaught(st, method, r) ==
    [st EXCEPT !.attempts = Append(@, Attempt(method, FALSE)), !.calls = @ \o r.calls]

\* the failure propagates to the outer catch
Throw(st, method, r) ==
    [st EXCEPT !.thrown = TRUE, !.err = r.err,
               !.attempts = Append(@, Attempt(method, FALSE)), !.calls = @ \o r.calls]

BaseUrlCheck(st, env) ==
    IF ~Truthy(env.ONCALLS_BASE_URL)
    THEN [st EXCEPT !.responses = Append(@, Response(500, NoHeader, "Server not configured: ONCALLS_BASE_URL missing")),
                    !.returned = TRUE]
    ELSE st

IsBearer(req) == req.authorization.scheme = "Bearer"

\* Bearer token that looks like a JWT: OAuth, falling through on failure
BearerOAuthBranch(st, req, now, ans) ==
    IF Running(st) /\ IsBearer(req) /\ req.authorization.token.segments = 3
    THEN LET r == fromOAuthTokens(req.authorization.token.text, "", now, ans.bearerUserinfo) IN
         IF r.ok THEN Accept(st, 1, r) ELSE Swallow(st, 1, r)
    ELSE st

\* Bearer base64(username:password); a failure is swallowed by the empty catch
BearerLegacyBranch(st, req, now, ans) ==
    IF /\ Running(st) /\ IsBearer(req)
       /\ Truthy(req.authorization.token.username)
       /\ Truthy(req.authorization.token.password)
    THEN LET r == authenticate(NewOncallsClient(req.authorization.token.username,
                                                req.authorization.token.password),
                               now, ans.bearerLogin) IN
         IF r.ok THEN Accept(st, 2, r) ELSE Swallow(st, 2, r)
    ELSE st

\* X-OnCalls-Username / X-OnCalls-Password
HeaderBranch(st, req, now, ans) ==
    IF Running(st) /\ Truthy(req.headerUsername) /\ Truthy(req.headerPassword)
    THEN LET r == authenticate(NewOncallsClient(req.headerUsername, req.headerPassword),
                               now, ans.headerLogin) IN
         IF r.ok THEN Accept(st, 3, r) ELSE Throw(st, 3, r)
    ELSE st

\* ?username=...&password=...
QueryBranch(st, req, now, ans) ==
    IF Running(st) /\ Truthy(req.queryUsername) /\ Truthy(req.queryPassword)
    THEN LET r == authenticate(NewOncallsClient(req.queryUsername, req.queryPassword),
                               now, ans.queryLogin) IN
         IF r.ok THEN Accept(st, 4, r) ELSE Throw(st, 4, r)
    ELSE st

\* ?access_token=...
AccessTokenBranch(st, req, now, ans) ==
    IF Running(st) /\ Truthy(req.queryAccessToken)
    THEN LET r == fromOAuthTokens(req.queryAccessToken, "", now, ans.queryUserinfo) IN
         IF r.ok THEN Accept(st, 5, r) ELSE Swallow(st, 5, r)
    ELSE st

\* ResourceMetadata with the default server URL whatever the environment says
ResourceMetadataDefault(env) == <<DefaultServerUrl, "/.well-known/oauth-protected-resource">>

ResourceMetadata(env) == <<ServerUrl(env), "/.well-known/oauth-protected-resource">>

\* no valid authentication found
Unauthorized(st, env) ==
    IF Running(st)
    THEN [st EXCEPT !.responses =
              Append(@, Response(401,
                                 [scheme |-> "Bearer",
                                  resource_metadata |-> ResourceMetadata(env),
                                  scope |-> OAuthScopes, error |-> Undef],
                                 "unauthorized")),
                    !.returned = TRUE]
    ELSE st

\* the outer catch
CatchBlock(st, env) ==
    IF st.thrown
    THEN [st EXCEPT !.responses =
              Append(@, Response(401,
                                 [scheme |-> "Bearer",
                                  resource_metadata |-> ResourceMetadata(env),
                                  scope |-> Undef, error |-> "invalid_token"],
                                 "invalid_token")),
                    !.thrown = FALSE, !.returned = TRUE]
    ELSE st

\* Each branch is applied to the value the previous one left.
authMiddleware(req, e, t, ans) ==
    LET s1 == {BaseUrlCheck(MiddlewareStart, e)}
        s2 == {BearerOAuthBranch(st, req, t, ans) : st \in s1}
        s3 == {BearerLegacyBranch(st, req, t, ans) : st \in s2}
        s4 == {HeaderBranch(st, req, t, ans) : st \in s3}
        s5 == {QueryBranch(st, req, t, ans) : st \in s4}
        s6 == {AccessTokenBranch(st, req, t, ans) : st \in s5}
        s7 == {Unauthorized(st, e) : st \in s6}
    IN  CHOOSE st \in {CatchBlock(s, e) : s \in s7} : TRUE

(***************************************************************************)
(* State                                                                   *)
(***************************************************************************)
VARIABLES
    env,                  \* process.env: ONCALLS_BASE_URL, MCP_SERVER_URL
    now,                  \* Date.now(), in milliseconds
    ticks,                \* how often the clock has advanced
    generated,            \* how many session identifiers the transports generated
    activeTransports,     \* session id -> [type, owner]
    authenticatedClients, \* the keys of the authenticatedClients map
    clients,              \* session id -> the OncallsClient its MCP server is bound to
    closed,               \* the session ids whose transport has closed
    auth,                 \* the last run of authMiddleware: request, answers, outcome
    pending,              \* the request that passed the middleware and awaits its route
    http,                 \* the last HTTP exchange on an MCP endpoint
    session,              \* the OncallsClient of a stand-alone (stdio) server
    op,                   \* the last operation on the stand-alone session
    oauthStates,          \* CSRF state -> [createdAt]
    issued,               \* how many CSRF states /oauth/start has generated
    sweepDue,             \* when the setInterval timer of the sweep is next due
    inflight,             \* the /oauth/callback handlers awaiting the token endpoint
    tokenRequests,        \* CSRF state -> how many token requests were sent for it
    flow,                 \* the last step of an OAuth endpoint or of the sweep
    invocations,          \* the tool invocations received, in arrival order
    started,              \* the invocations whose handler has started, in that order
    server,               \* whether an MCP server was created for the session
    dispatched            \* the last request that server's handlers served

\* the state of the OAuth endpoints
flowVars == <<oauthStates, issued, sweepDue, inflight, tokenRequests, flow>>

\* the tool invocations in progress
callVars == <<invocations, started>>

\* one MCP server and the request it served last
dispatchVars == <<server, dispatched>>

vars == <<env, now, ticks, generated, activeTransports, authenticatedClients, clients,
          closed, auth, pending, http, session, op, flowVars, callVars, dispatchVars>>

\* the server's maps, as one value
World == [activeTransports |-> activeTransports,
          authenticatedClients |-> authenticatedClients,
          clients |-> clients, generated |-> generated, closed |-> closed]

\* f with key k bound to v (Map.set)
MapSet(f, k, v) == [x \in (DOMAIN f) \cup {k} |-> IF x = k THEN v ELSE f[x]]

\* f without key k (Map.delete)
MapDelete(f, k) == [x \in (DOMAIN f) \ {k} |-> f[x]]

EmptyMap == [x \in {} |-> 0]

(***************************************************************************)
(* The OAuth endpoints: /oauth/start, /oauth/callback and the sweep of the *)
(* CSRF states                                                             *)
(***************************************************************************)
\* 10 * 60 * 1000: the age beyond which the sweep deletes a state
StateTtlMs == 600000

\* 60 * 1000: the period of the sweep
SweepIntervalMs == 60000

\* crypto.randomBytes(32).toString('hex'): the n-th value drawn, never drawn before
randomBytes(n) == "state-" \o ToString(n)

\* req.query of /oauth/callback
Query(state, code, error) == [state |-> state, code |-> code, error |-> error]

NoQuery == Query(Undef, Undef, Undef)

\* a sweep that deletes nothing
sweepKeepingAll(states, t) == states

\* the body of the setInterval callback, run at time t
sweep(states, t) ==
    [s \in {x \in DOMAIN states : ~(t - states[x].createdAt > StateTtlMs)} |-> states[s]]

\* GET /oauth/start, drawing the value state at time t
oauthStart(states, state, t) == MapSet(states, state, [createdAt |-> t])

\* what a handler did: the map it left, its answer (status 0: none yet, it awaits
\* the token endpoint), and whether it sent the token request
Handled(states, status, error, fetched) ==
    [states |-> states, status |-> status, error |-> error, fetched |-> fetched]

\* GET /oauth/callback without the delete of the state
oauthCallbackKeepingState(states, q) ==
    IF Truthy(q.error) THEN Handled(states, 400, q.error, FALSE)
    ELSE IF ~Truthy(q.state) \/ q.state \notin DOMAIN states
    THEN Handled(states, 400, "invalid_state", FALSE)
    ELSE IF ~Truthy(q.code)
    THEN Handled(states, 400, "missing_code", FALSE)
    ELSE Handled(states, 0, Undef, TRUE)

\* GET /oauth/callback deleting the state also when the query carries an error
oauthCallbackConsumingOnError(states, q) ==
    IF Truthy(q.error) THEN Handled(MapDelete(states, q.state), 400, q.error, FALSE)
    ELSE IF ~Truthy(q.state) \/ q.state \notin DOMAIN states
    THEN Handled(states, 400, "invalid_state", FALSE)
    ELSE IF ~Truthy(q.code)
    THEN Handled(MapDelete(states, q.state), 400, "missing_code", FALSE)
    ELSE Handled(MapDelete(states, q.state), 0, Undef, TRUE)

\* GET /oauth/callback up to its await of fetch(OAUTH_CONFIG.tokenUrl): one turn
\* of the event loop, nothing else runs in between
oauthCallback(states, q) ==
    IF Truthy(q.error) THEN Handled(states, 400, q.error, FALSE)
    ELSE IF ~Truthy(q.state) \/ q.state \notin DOMAIN states
    THEN Handled(states, 400, "invalid_state", FALSE)
    ELSE IF ~Truthy(q.code)
    THEN Handled(MapDelete(states, q.state), 400, "missing_code", FALSE)
    ELSE Handled(MapDelete(states, q.state), 0, Undef, TRUE)

\* GET /oauth/callback after the token endpoint answered a
oauthCallbackResume(states, a) ==
    IF a.kind = "network_error" THEN Handled(states, 500, "server_error", FALSE)
    ELSE IF a.kind # "2xx" THEN Handled(states, 400, "token_exchange_failed", FALSE)
    ELSE Handled(states, 200, Undef, FALSE)

\* a step of an OAuth endpoint: the handler, its query, whether the map held the
\* state when the handler started and since when, how many token requests had
\* been sent for that state, the time, and what the handler did
Flow(step, q, had, createdAt, sent, at, r) ==
    [step |-> step, query |-> q, had |-> had, createdAt |-> createdAt, sent |-> sent,
     at |-> at, status |-> r.status, error |-> r.error, fetched |-> r.fetched]

NoFlow == Flow("none", NoQuery, FALSE, 0, 0, 0, Handled(EmptyMap, 0, Undef, FALSE))

\* no OAuth flow has started
FlowIdle ==
    /\ oauthStates = EmptyMap
    /\ issued = 0
    /\ sweepDue = SweepIntervalMs
    /\ inflight = {}
    /\ tokenRequests = EmptyMap
    /\ flow = NoFlow

\* no tool invocation has been received
CallsIdle == invocations = <<>> /\ started = <<>>

\* what is recorded of a request served by an MCP server: the message, the client
\* before it, the time, and what the handler handed to the protocol layer
Dispatched(body, before, at, reply) ==
    [body |-> body, before |-> before, at |-> at, kind |-> reply.kind, tools |-> reply.tools,
     thrown |-> reply.thrown, calls |-> reply.calls, handlerRan |-> reply.handlerRan]

(***************************************************************************)
(* JSON-RPC bodies and the protocol layer of the SDK                       *)
(***************************************************************************)
Body(method, name) == [method |-> method, name |-> name]

NoBody == Body(Undef, Undef)

\* isInitializeRequest answering true to every body
isAnyRequest(body) == TRUE

isInitializeRequest(body) == body.method = "initialize"

NoReply == Reply("none", <<>>, NoError, NoClient, <<>>, FALSE)

NoDispatched == Dispatched(NoBody, NoClient, 0, NoReply)

\* no MCP server has been created
DispatchIdle == server = "none" /\ dispatched = NoDispatched

\* The MCP server created by createMcpServer(client) receives a message.
Dispatch(c, body, t, ans) ==
    IF body.method = "tools/list" THEN ListTools(c)
    ELSE IF body.method = "tools/call" THEN CallTool(c, body.name, t, ans)
    ELSE Reply("result", <<>>, NoError, c, <<>>, FALSE)

\* error.code of the JSON-RPC rejections of the route handlers
ServerError == -32000

\* a response body without an error.code
NoCode == 0

(***************************************************************************)
(* The outcome of a route handler: the server's maps after it, the status  *)
(* written, the error.code of a JSON-RPC rejection written by the handler  *)
(* (NoCode when the body has none),                                        *)
(* written, the JSON-RPC error code or error text of a rejection, the      *)
(* session whose transport received the request (0: none), and the reply   *)
(* of that session's MCP server.                                           *)
(***************************************************************************)
Outcome(w, status, error, deliveredTo, reply) ==
    [w |-> w, status |-> status, error |-> error, deliveredTo |-> deliveredTo,
     reply |-> reply, code |-> NoCode]

\* res.status(status).json({ error: '...' })
Reject(w, status, error) == Outcome(w, status, error, 0, NoReply)

\* res.status(status).json({ jsonrpc: '2.0', error: { code: -32000, message }, id: null })
RejectRpc(w, status, message) == [Reject(w, status, message) EXCEPT !.code = ServerError]

\* CloseSse without activeTransports.delete
CloseSseKeepingEntry(w, sid) ==
    [w EXCEPT !.clients = MapDelete(@, sid),
              !.closed = @ \cup {sid}]

\* CloseStreamable without authenticatedClients.delete
CloseStreamableKeepingClient(w, sid) ==
    [w EXCEPT !.activeTransports = MapDelete(@, sid),
              !.clients = MapDelete(@, sid),
              !.closed = @ \cup {sid}]

\* transport.onclose of a Streamable HTTP transport
CloseStreamable(w, sid) ==
    [w EXCEPT !.activeTransports = MapDelete(@, sid),
              !.authenticatedClients = @ \ {sid},
              !.clients = MapDelete(@, sid),
              !.closed = @ \cup {sid}]

\* res.on('close') of an SSE connection
CloseSse(w, sid) ==
    [w EXCEPT !.activeTransports = MapDelete(@, sid),
              !.clients = MapDelete(@, sid),
              !.closed = @ \cup {sid}]

Transport(type, owner) == [type |-> type, owner |-> owner]

\* A new StreamableHTTPServerTransport, connected to a server created for
\* client, handles the initialization request: it generates the session id
\* and calls onsessioninitialized.
InitializeStreamable(w, client, body, t, ans) ==
    LET sid == w.generated + 1
        w2 == [w EXCEPT !.generated = sid,
                        !.activeTransports =
                            MapSet(@, sid, Transport("streamable", client.userContext)),
                        !.authenticatedClients = @ \cup {sid},
                        !.clients = MapSet(@, sid, client)]
    IN  Outcome(w2, 200, Undef, sid, Dispatch(client, body, t, ans))

\* transport.handleRequest(req, res, req.body) on a registered transport
HandleRequest(w, sid, method, body, t, ans) ==
    IF method = "DELETE" THEN Outcome(CloseStreamable(w, sid), 200, Undef, sid, NoReply)
    ELSE IF method = "GET" THEN Outcome(w, 200, Undef, sid, NoReply)
    ELSE IF isInitializeRequest(body)
    THEN Outcome(w, 400, "Invalid Request: Server already initialized", sid, NoReply)
    ELSE The({Outcome([w EXCEPT !.clients[sid] = reply.c], 200, Undef, sid, reply)
              : reply \in {Dispatch(w.clients[sid], body, t, ans)}})

\* transport.handlePostMessage(req, res, req.body) on an SSE transport
HandlePostMessage(w, sid, body, t, ans) ==
    The({Outcome([w EXCEPT !.clients[sid] = reply.c], 202, Undef, sid, reply)
         : reply \in {Dispatch(w.clients[sid], body, t, ans)}})

Registered(w, sid) == sid # 0 /\ sid \in DOMAIN w.activeTransports

\* McpHandler without its instanceof check
McpHandlerAnyTransport(w, req, client, t, ans) ==
    LET sessionId == req.headerSession IN
    IF Registered(w, sessionId)
    THEN HandleRequest(w, sessionId, req.method, req.body, t, ans)
    ELSE IF sessionId = 0 /\ req.method = "POST" /\ isInitializeRequest(req.body)
    THEN InitializeStreamable(w, client, req.body, t, ans)
    ELSE IF sessionId # 0
    THEN RejectRpc(w, 404, "Session not found")
    ELSE RejectRpc(w, 400, "Bad Request: No valid session ID provided or not an initialization request")

\* the handler of app.all('/mcp'), after authMiddleware called next()
McpHandler(w, req, client, t, ans) ==
    LET sessionId == req.headerSession IN
    IF Registered(w, sessionId)
    THEN IF w.activeTransports[sessionId].type = "streamable"
         THEN HandleRequest(w, sessionId, req.method, req.body, t, ans)
         ELSE RejectRpc(w, 400, "Bad Request: Session exists but uses a different transport protocol")
    ELSE IF sessionId = 0 /\ req.method = "POST" /\ isInitializeRequest(req.body)
    THEN InitializeStreamable(w, client, req.body, t, ans)
    ELSE IF sessionId # 0
    THEN RejectRpc(w, 404, "Session not found")
    ELSE RejectRpc(w, 400, "Bad Request: No valid session ID provided or not an initialization request")

\* SseGetHandler with a transport whose session id is not a fresh one
SseGetHandlerReusingId(w, client) ==
    Outcome([w EXCEPT !.generated = @ + 1,
                      !.activeTransports = MapSet(@, 1, Transport("sse", client.userContext)),
                      !.clients = MapSet(@, 1, client)],
            200, Undef, 0, NoReply)

\* the handler of app.get('/sse'), after authMiddleware called next()
SseGetHandler(w, client) ==
    LET sid == w.generated + 1 IN
    Outcome([w EXCEPT !.generated = sid,
                      !.activeTransports = MapSet(@, sid, Transport("sse", client.userContext)),
                      !.clients = MapSet(@, sid, client)],
            200, Undef, 0, NoReply)

\* the handler of app.post('/message'): no middleware runs before it
MessageHandler(w, req, t, ans) ==
    LET sessionId == req.querySession IN
    IF sessionId = 0 THEN Reject(w, 400, "Missing sessionId parameter")
    ELSE IF ~Registered(w, sessionId) THEN Reject(w, 404, "Session not found")
    ELSE IF w.activeTransports[sessionId].type # "sse"
    THEN Reject(w, 400, "Session uses different transport protocol")
    ELSE HandlePostMessage(w, sessionId, req.body, t, ans)

\* the handler of app.post('/sse'), after authMiddleware called next()
SsePostHandler(w, req, client, t, ans) ==
    LET sessionId == req.querySession
        headerSessionId == req.headerSession
    IN  IF sessionId = 0
        THEN IF Registered(w, headerSessionId)
             THEN IF w.activeTransports[headerSessionId].type = "streamable"
                  THEN HandleRequest(w, headerSessionId, "POST", req.body, t, ans)
                  ELSE RejectRpc(w, 400, "Session uses different transport protocol")
             ELSE IF headerSessionId = 0 /\ isInitializeRequest(req.body)
             THEN InitializeStreamable(w, client, req.body, t, ans)
             ELSE IF headerSessionId # 0
             THEN RejectRpc(w, 404, "Session not found")
             ELSE RejectRpc(w, 400, "Bad Request: No session ID or initialization request")
        ELSE IF ~Registered(w, sessionId) THEN Reject(w, 404, "Session not found")
        ELSE IF w.activeTransports[sessionId].type # "sse"
        THEN Reject(w, 400, "Session uses different transport protocol")
        ELSE HandlePostMessage(w, sessionId, req.body, t, ans)

(***************************************************************************)
(* Requests                                                                *)
(***************************************************************************)
Carriers(authorization, headerUsername, headerPassword, queryUsername, queryPassword, queryAccessToken) ==
    [authorization |-> authorization,
     headerUsername |-> headerUsername, headerPassword |-> headerPassword,
     queryUsername |-> queryUsername, queryPassword |-> queryPassword,
     queryAccessToken |-> queryAccessToken]

NoCarriers == Carriers(NoAuthorization, Undef, Undef, Undef, Undef, Undef)

Request(endpoint, method, carriers, headerSession, querySession, body) ==
    [endpoint |-> endpoint, method |-> method,
     authorization |-> carriers.authorization,
     headerUsername |-> carriers.headerUsername, headerPassword |-> carriers.headerPassword,
     queryUsername |-> carriers.queryUsername, queryPassword |-> carriers.queryPassword,
     queryAccessToken |-> carriers.queryAccessToken,
     headerSession |-> headerSession, querySession |-> querySession, body |-> body]

\* The accounts of the upstream service in the model.
Directory(username) ==
    IF username = "alice" THEN Profile(1, 10, TRUE, TRUE, "alice@example.org")
    ELSE IF username = "bob" THEN Profile(2, 10, FALSE, FALSE, "bob@example.org")
    ELSE NoData

\* the account of username after its admin rights were withdrawn upstream
Demoted(username) ==
    [Directory(username) EXCEPT !.Admin = FALSE, !.viewReqs = FALSE]

LoginAccepted(username) ==
    LoginBody("true", "access-1", "refresh-1", Directory(username), Undef)

LoginRefused == LoginBody("false", Undef, Undef, NoData, "Invalid credentials")

UserInfoOf(username) == UserInfoBody(Directory(username))

Unauthorized401 == HttpError(Undef, "HTTP 401: Unauthorized")

\* The answers of the upstream to the calls one request can cause: one per
\* branch of authMiddleware, the answers to the logins of one
\* ensureAuthenticated() in order, and one per other endpoint.
Answers(bearerUserinfo, bearerLogin, headerLogin, queryLogin, queryUserinfo, login, refresh, oauth, api) ==
    [bearerUserinfo |-> bearerUserinfo, bearerLogin |-> bearerLogin,
     headerLogin |-> headerLogin, queryLogin |-> queryLogin,
     queryUserinfo |-> queryUserinfo, login |-> login, refresh |-> refresh,
     oauth |-> oauth, api |-> api]

(***************************************************************************)
(* The remote server.  A request is served in the two steps Express takes: *)
(* the middleware of its route (none on /message), and, if the middleware  *)
(* called next(), the route's handler.  What the handler reads of the      *)
(* request (session references, body) is drawn when the handler runs.      *)
(* The exchange stays on record until its response has been sent.          *)
(***************************************************************************)
Bodies ==
    {Body("initialize", Undef), Body("tools/list", Undef),
     Body("tools/call", "get-my-schedule"), Body("tools/call", "list-members"),
     Body("tools/call", "delete-everything")}

\* what the requests of the server specification carry as credentials
ServerCarriers ==
    {NoCarriers,
     Carriers(NoAuthorization, "alice", "pw", Undef, Undef, Undef),
     Carriers(NoAuthorization, "bob", "pw", Undef, Undef, Undef),
     Carriers(Bearer(CHOOSE tok \in BearerTokens : tok.segments = 3 /\ tok.username # "alice"),
              Undef, Undef, Undef, Undef, Undef)}

NoLogins == <<LoginRefused, LoginRefused>>

\* the upstream accepts the credentials a request carries, or refuses them
ServerAuthAnswers(carriers) ==
    {Answers(UserInfoOf("alice"), LoginRefused, LoginAccepted(carriers.headerUsername),
             LoginAccepted(carriers.queryUsername), UserInfoOf("alice"),
             NoLogins, Unauthorized401, Unauthorized401, ApiBody)}
    \cup
    (IF carriers = NoCarriers THEN {}
     ELSE {Answers(Unauthorized401, LoginRefused, LoginRefused, LoginRefused,
                   Unauthorized401, NoLogins, Unauthorized401, Unauthorized401, ApiBody)})

\* the answers of the API to a tool's call
ApiAnswers == {ApiBody, HttpError("Forbidden", "HTTP 403: Forbidden")}

ServerToolAnswers(body) ==
    {Answers(Unauthorized401, LoginRefused, LoginRefused, LoginRefused, Unauthorized401,
             NoLogins, Unauthorized401, Unauthorized401, api)
        : api \in IF body.method = "tools/call" THEN ApiAnswers ELSE {ApiBody}}

Routes ==
    {<<"/mcp", "GET">>, <<"/mcp", "POST">>, <<"/mcp", "DELETE">>, <<"/sse", "GET">>,
     <<"/sse", "POST">>, <<"/message", "POST">>}

SessionRefs == 0..MaxSessions

\* the session references of a POST /sse: the mcp-session-id header and the
\* sessionId query parameter, each present or not
SsePostRefs == SessionRefs \X SessionRefs

NoPending ==
    [waiting |-> FALSE, endpoint |-> "", method |-> "", authRan |-> FALSE,
     carriers |-> NoCarriers, client |-> NoClient]

Pending(endpoint, method, authRan, carriers, client) ==
    [waiting |-> TRUE, endpoint |-> endpoint, method |-> method, authRan |-> authRan,
     carriers |-> carriers, client |-> client]

\* what is recorded of an exchange
Exchange(endpoint, method, body, headerSession, querySession, authRan, authPassed, carriers, authIdentity, status, error, wwwAuthenticate, deliveredTo, boundIdentity, reply) ==
    [endpoint |-> endpoint, method |-> method, body |-> body,
     headerSession |-> headerSession, querySession |-> querySession,
     authRan |-> authRan, authPassed |-> authPassed,
     credentials |-> carriers # NoCarriers, authIdentity |-> authIdentity,
     status |-> status, error |-> error, code |-> NoCode,
     wwwAuthenticate |-> wwwAuthenticate,
     deliveredTo |-> deliveredTo, boundIdentity |-> boundIdentity,
     reply |-> [kind |-> reply.kind, tools |-> reply.tools, thrown |-> reply.thrown,
                calls |-> reply.calls, handlerRan |-> reply.handlerRan]]

NoExchange ==
    Exchange("", "", NoBody, 0, 0, FALSE, FALSE, NoCarriers, NoUserContext, 0, Undef, NoHeader, 0,
             NoUserContext, NoReply)

\* A request arrives and the middleware of its route runs.
Arrive ==
    /\ ~pending.waiting
    /\ http = NoExchange
    /\ \E route \in Routes, carriers \in ServerCarriers :
         IF route[1] = "/message"
         THEN /\ pending' = Pending(route[1], route[2], FALSE, carriers, NoClient)
              /\ http' = NoExchange
         ELSE \E ans \in ServerAuthAnswers(carriers) :
                \E out \in {authMiddleware(Request(route[1], route[2], carriers, 0, 0,
                                                    NoBody), env, now, ans)} :
                    IF out.nextCalls > 0
                    THEN /\ pending' = Pending(route[1], route[2], TRUE, carriers, out.client)
                         /\ http' = NoExchange
                    ELSE /\ pending' = NoPending
                         /\ http' = Exchange(route[1], route[2], NoBody, 0, 0, TRUE, FALSE, carriers,
                                             NoUserContext, out.responses[1].status,
                                             out.responses[1].error,
                                             out.responses[1].wwwAuthenticate, 0,
                                             NoUserContext, NoReply)
    /\ UNCHANGED flowVars
    /\ UNCHANGED callVars
    /\ UNCHANGED dispatchVars
    /\ UNCHANGED <<env, now, ticks, generated, activeTransports, authenticatedClients,
                   clients, closed, auth, session, op>>

\* the identity bound to the session that received the request
BoundIdentity(res) ==
    IF res.deliveredTo = 0 THEN NoUserContext
    ELSE IF res.deliveredTo \in DOMAIN activeTransports
    THEN activeTransports[res.deliveredTo].owner
    ELSE res.w.activeTransports[res.deliveredTo].owner

\* the route's handler has run on request req with outcome res
Served(req, res) ==
    /\ res.w.generated <= MaxSessions
    /\ generated' = res.w.generated
    /\ activeTransports' = res.w.activeTransports
    /\ authenticatedClients' = res.w.authenticatedClients
    /\ clients' = res.w.clients
    /\ closed' = res.w.closed
    /\ http' = [Exchange(pending.endpoint, pending.method, req.body, req.headerSession,
                         req.querySession, pending.authRan,
                         pending.authRan, pending.carriers, pending.client.userContext,
                         res.status, res.error, NoHeader, res.deliveredTo, BoundIdentity(res),
                         res.reply) EXCEPT !.code = res.code]
    /\ pending' = NoPending
    /\ UNCHANGED flowVars
    /\ UNCHANGED callVars
    /\ UNCHANGED dispatchVars
    /\ UNCHANGED <<env, now, ticks, auth, session, op>>

McpRoute ==
    /\ pending.waiting /\ pending.endpoint = "/mcp"
    /\ \E headerSession \in SessionRefs :
         \E body \in IF pending.method = "POST" THEN Bodies ELSE {NoBody} :
           \E ans \in ServerToolAnswers(body) :
             \E req \in {Request("/mcp", pending.method, pending.carriers, headerSession, 0,
                                 body)} :
               \E res \in {McpHandler(World, req, pending.client, now, ans)} :
                 Served(req, res)

SseGetRoute ==
    /\ pending.waiting /\ pending.endpoint = "/sse" /\ pending.method = "GET"
    /\ \E res \in {SseGetHandler(World, pending.client)} :
         Served(Request("/sse", "GET", pending.carriers, 0, 0, NoBody), res)

SsePostRoute ==
    /\ pending.waiting /\ pending.endpoint = "/sse" /\ pending.method = "POST"
    /\ \E refs \in SsePostRefs, body \in Bodies :
         \E ans \in ServerToolAnswers(body) :
           \E req \in {Request("/sse", "POST", pending.carriers, refs[1], refs[2], body)} :
             \E res \in {SsePostHandler(World, req, pending.client, now, ans)} :
               Served(req, res)

MessageRoute ==
    /\ pending.waiting /\ pending.endpoint = "/message"
    /\ \E querySession \in SessionRefs, body \in Bodies :
         \E ans \in ServerToolAnswers(body) :
           \E req \in {Request("/message", "POST", pending.carriers, 0, querySession,
                               body)} :
             \E res \in {MessageHandler(World, req, now, ans)} :
               Served(req, res)

\* The response has been sent: the exchange is over.
Respond ==
    /\ http # NoExchange
    /\ http' = NoExchange
    /\ UNCHANGED flowVars
    /\ UNCHANGED callVars
    /\ UNCHANGED dispatchVars
    /\ UNCHANGED <<env, now, ticks, generated, activeTransports, authenticatedClients,
                   clients, closed, auth, pending, session, op>>

\* the client of an SSE connection goes away
SseDisconnect ==
    \E sid \in DOMAIN activeTransports :
      /\ http = NoExchange
      /\ activeTransports[sid].type = "sse"
      /\ activeTransports' = CloseSse(World, sid).activeTransports
      /\ clients' = CloseSse(World, sid).clients
      /\ closed' = CloseSse(World, sid).closed
      /\ UNCHANGED flowVars
      /\ UNCHANGED callVars
      /\ UNCHANGED dispatchVars
      /\ UNCHANGED <<env, now, ticks, generated, authenticatedClients, auth, pending, http,
                     session, op>>

NoAuthRun ==
    [ran |-> FALSE, req |-> Request("", "", NoCarriers, 0, 0, NoBody),
     ans |-> Answers(NetworkError, NetworkError, NetworkError, NetworkError, NetworkError,
                     <<NetworkError, NetworkError>>, NetworkError, NetworkError,
                     NetworkError),
     out |-> MiddlewareStart]

NoOp ==
    [name |-> "none", before |-> NoClient, at |-> 0, ans |-> NoAuthRun.ans, ok |-> TRUE,
     err |-> NoError, calls |-> <<>>, args |-> <<>>, prev |-> "none", lapsed |-> FALSE]

ServerEnvs ==
    {[ONCALLS_BASE_URL |-> "https://api.example/api", MCP_SERVER_URL |-> Undef],
     [ONCALLS_BASE_URL |-> Undef, MCP_SERVER_URL |-> Undef]}

Init ==
    /\ env \in ServerEnvs
    /\ now = 0
    /\ ticks = 0
    /\ generated = 0
    /\ activeTransports = EmptyMap
    /\ authenticatedClients = {}
    /\ clients = EmptyMap
    /\ closed = {}
    /\ auth = NoAuthRun
    /\ pending = NoPending
    /\ http = NoExchange
    /\ session = NoClient
    /\ op = NoOp
    /\ FlowIdle
    /\ CallsIdle
    /\ DispatchIdle

Next ==
    \/ Arrive
    \/ McpRoute
    \/ SseGetRoute
    \/ SsePostRoute
    \/ MessageRoute
    \/ Respond
    \/ SseDisconnect

Spec == Init /\ [][Next]_vars

(***************************************************************************)
(* authMiddleware on its own.  The request, the environment and what the   *)
(* upstream would answer are given; the middleware runs once on them.      *)
(***************************************************************************)
AuthEnvs ==
    ServerEnvs \cup {[ONCALLS_BASE_URL |-> "https://api.example/api",
                      MCP_SERVER_URL |-> "https://mcp.example"]}

AuthCarriers ==
    {Carriers(a, h[1], h[2], q[1], q[2], t) :
        a \in {NoAuthorization, BasicAuthorization} \cup {Bearer(tok) : tok \in BearerTokens},
        h \in {<<Undef, Undef>>, <<"alice", "pw">>, <<"bob", "pw">>, <<"alice", Undef>>},
        q \in {<<Undef, Undef>>, <<"alice", "pw">>, <<"bob", "pw">>},
        t \in {Undef, "oauth-access"}}

\* what the login endpoint can answer for a username: it accepts accounts only
LoginAnswersFor(username) ==
    {LoginRefused, NetworkError}
    \cup (IF Directory(username).present THEN {LoginAccepted(username)} ELSE {})

UserInfoAnswers == {UserInfoOf("alice"), UserInfoOf("bob"), Unauthorized401}

\* the answers a request's carriers can receive; a branch whose carrier is
\* absent makes no call
AuthAnswers(carriers) ==
    {Answers(bu, bl, hl, ql, qu, NoLogins, Unauthorized401, Unauthorized401, ApiBody) :
        bu \in IF carriers.authorization.token.segments = 3
               THEN UserInfoAnswers ELSE {Unauthorized401},
        bl \in IF Truthy(carriers.authorization.token.password)
               THEN LoginAnswersFor(carriers.authorization.token.username)
               ELSE {LoginRefused},
        hl \in IF Truthy(carriers.headerPassword)
               THEN LoginAnswersFor(carriers.headerUsername) ELSE {LoginRefused},
        ql \in IF Truthy(carriers.queryPassword)
               THEN LoginAnswersFor(carriers.queryUsername) ELSE {LoginRefused},
        qu \in IF Truthy(carriers.queryAccessToken)
               THEN UserInfoAnswers ELSE {Unauthorized401}}

InitAuth ==
    /\ env \in AuthEnvs
    /\ now = 0
    /\ ticks = 0
    /\ generated = 0
    /\ activeTransports = EmptyMap
    /\ authenticatedClients = {}
    /\ clients = EmptyMap
    /\ closed = {}
    /\ \E carriers \in AuthCarriers :
         \E ans \in AuthAnswers(carriers) :
           auth = [NoAuthRun EXCEPT !.req = Request("/mcp", "POST", carriers, 0, 0, NoBody),
                                    !.ans = ans]
    /\ pending = NoPending
    /\ http = NoExchange
    /\ session = NoClient
    /\ op = NoOp
    /\ FlowIdle
    /\ CallsIdle
    /\ DispatchIdle

\* app.all('/mcp', authMiddleware, ...): Express calls the middleware
AuthRun ==
    /\ ~auth.ran
    /\ auth' = [auth EXCEPT !.ran = TRUE,
                            !.out = authMiddleware(auth.req, env, now, auth.ans)]
    /\ UNCHANGED flowVars
    /\ UNCHANGED callVars
    /\ UNCHANGED dispatchVars
    /\ UNCHANGED <<env, now, ticks, generated, activeTransports, authenticatedClients,
                   clients, closed, pending, http, session, op>>

NextAuth == AuthRun

SpecAuth == InitAuth /\ [][NextAuth]_vars

(***************************************************************************)
(* A stand-alone session: one OncallsClient, as the stdio server holds it, *)
(* its public methods called one at a time while the clock advances.       *)
(***************************************************************************)
\* what the login endpoint may answer to the session's credentials
SessionLogins ==
    {LoginAccepted("alice"),
     LoginBody("true", "access-2", "refresh-2", Directory("alice"), Undef),
     LoginBody("true", "access-3", Undef, Directory("alice"), Undef),
     Lasting(LoginBody("true", "access-2", "refresh-2", Directory("alice"), Undef),
             2 * DefaultExpiresInSeconds),
     LoginBody("true", "access-4", "refresh-4", NoData, Undef),
     LoginRefused,
     LoginBody("false", "access-5", "refresh-5", Directory("alice"), "Account locked"),
     LoginBody("\"true\"", "access-6", "refresh-6", Directory("alice"), Undef),
     LoginBody(Undef, "access-7", "refresh-7", Directory("alice"), Undef),
     LoginBody("true", Undef, "refresh-8", Directory("alice"), Undef),
     LoginBody("true", "", "refresh-9", Directory("alice"), Undef),
     HttpError("Invalid credentials", "HTTP 401: Unauthorized"),
     NetworkError}

\* the answers to the logins of one ensureAuthenticated()
ReLogins ==
    {LoginBody("true", "access-2", "refresh-2", Directory("alice"), Undef),
     LoginBody("true", "access-2", "refresh-2", Demoted("alice"), Undef),
     LoginBody("true", "access-4", "refresh-4", NoData, Undef),
     LoginRefused,
     NetworkError}

RefreshAnswers ==
    {RefreshBody("access-r", Undef), RefreshBody(Undef, "access-t"), RefreshBody(Undef, Undef),
     Lasting(RefreshBody("access-r", Undef), 2 * DefaultExpiresInSeconds),
     Unauthorized401, NetworkError}

OAuthAnswers ==
    {OAuthTokenBody("oauth-access-2", Undef), OAuthTokenBody("oauth-access-2", "oauth-refresh-2"),
     Lasting(OAuthTokenBody("oauth-access-2", Undef), 2 * DefaultExpiresInSeconds),
     OAuthTokenBody(Undef, Undef), HttpError(Undef, "HTTP 400: Bad Request"), NetworkError}

\* the login endpoint accepts and describes the account
Accepts(l) == l.kind = "2xx" /\ l.status = "true" /\ l.data.present

\* The answers to the logins that follow refresh answer r: none when the
\* refresh succeeds, one when the refresh call itself fails, and a second one
\* when the first login, made on a refusal of the refresh, fails too.
LoginsAfter(r) ==
    IF r.kind = "2xx" /\ Truthy(OrElse(r.access_token, r.token)) THEN {NoLogins}
    ELSE IF r.kind = "network_error" THEN {<<l1, LoginRefused>> : l1 \in ReLogins}
    ELSE UNION {{<<l1, l2>> : l2 \in IF Accepts(l1) THEN {LoginRefused} ELSE ReLogins}
                   : l1 \in ReLogins}

\* The answers one call of a session's method can receive at time t; an
\* endpoint the call does not reach gives no answer to choose.
SessionAnswers(c, t, apis) ==
    LET stale == hasTokens(c.tokenManager) /\ needsRefresh(c.tokenManager, t)
        refreshing == stale /\ Truthy(getRefreshToken(c.tokenManager))
        password ==
            IF refreshing
            THEN UNION {{<<r, ls>> : ls \in LoginsAfter(r)} : r \in RefreshAnswers}
            ELSE IF stale \/ ~hasTokens(c.tokenManager)
            THEN {<<Unauthorized401, <<l1, LoginRefused>>>> : l1 \in ReLogins}
            ELSE {<<Unauthorized401, NoLogins>>}
        issuers == IF c.oauth /\ refreshing THEN OAuthAnswers ELSE {Unauthorized401}
    IN  {Answers(Unauthorized401, LoginRefused, LoginRefused, LoginRefused, Unauthorized401,
                 p[2], p[1], o, api) :
            p \in IF c.oauth THEN {<<Unauthorized401, NoLogins>>} ELSE password,
            o \in issuers, api \in apis}

\* the clock advances by a second, or to a second before a refresh is due
TickSteps ==
    {MsPerSecond, (DefaultExpiresInSeconds - RefreshBufferSeconds - 1) * MsPerSecond}

\* the refresh_token grant of an OAuth session was refused or did not get through
GrantFailed(calls) ==
    \E i \in 1..Len(calls) : calls[i].ep = "oauth_token" /\ calls[i].ans.kind # "2xx"

\* what is recorded of a call: the client before it, the time, the answers
\* the upstream gave, the outcome, and whether a refresh_token grant of this
\* session has failed so far
Op(name, before, at, ans, r) ==
    [name |-> name, before |-> before, at |-> at, ans |-> ans, ok |-> r.ok, err |-> r.err,
     calls |-> r.calls, args |-> <<>>, prev |-> "none",
     lapsed |-> op.lapsed \/ GrantFailed(r.calls)]

\* new OncallsClient(config), or the client OncallsClient.fromOAuthTokens made
InitSession ==
    /\ env \in {e \in ServerEnvs : Truthy(e.ONCALLS_BASE_URL)}
    /\ now = 0
    /\ ticks = 0
    /\ generated = 0
    /\ activeTransports = EmptyMap
    /\ authenticatedClients = {}
    /\ clients = EmptyMap
    /\ closed = {}
    /\ auth = NoAuthRun
    /\ pending = NoPending
    /\ http = NoExchange
    /\ session \in {NewOncallsClient("alice", "pw")}
                    \cup {fromOAuthTokens("oauth-access-1", rt, 0, UserInfoOf("alice")).c :
                              rt \in {"", "oauth-refresh-1"}}
    /\ op = NoOp
    /\ FlowIdle
    /\ CallsIdle
    /\ DispatchIdle

SessionStep(name, ans, r) ==
    /\ session' = r.c
    /\ op' = Op(name, session, now, ans, r)
    /\ UNCHANGED flowVars
    /\ UNCHANGED callVars
    /\ UNCHANGED dispatchVars
    /\ UNCHANGED <<env, now, ticks, generated, activeTransports, authenticatedClients,
                   clients, closed, auth, pending, http>>

\* client.authenticate()
Authenticate ==
    /\ ~session.oauth
    /\ \E a \in SessionLogins :
         \E ans \in {[NoAuthRun.ans EXCEPT !.login = <<a, a>>]} :
           \E r \in {authenticate(session, now, a)} : SessionStep("authenticate", ans, r)

\* client.ensureAuthenticated()
EnsureAuthenticated ==
    \E ans \in SessionAnswers(session, now, {ApiBody}) :
      \E r \in {ensureAuthenticated(session, now, ans)} :
        SessionStep("ensureAuthenticated", ans, r)

\* client.get(), client.post(), client.put()
Get ==
    \E ans \in SessionAnswers(session, now, ApiAnswers) :
      \E r \in {request(session, now, ans)} : SessionStep("get", ans, r)

\* time passes
Tick ==
    /\ ticks < MaxTicks
    /\ ticks' = ticks + 1
    /\ \E d \in TickSteps : now' = now + d
    /\ UNCHANGED flowVars
    /\ UNCHANGED callVars
    /\ UNCHANGED dispatchVars
    /\ UNCHANGED <<env, generated, activeTransports, authenticatedClients, clients, closed,
                   auth, pending, http, session, op>>

NextSession ==
    \/ Authenticate
    \/ EnsureAuthenticated
    \/ Get
    \/ Tick

SpecSession == InitSession /\ [][NextSession]_vars

(***************************************************************************)
(* A stand-alone token store: the TokenManager of a client, its methods    *)
(* called one at a time while the clock advances.                          *)
(***************************************************************************)
AccessTokens == {"access-1", "access-2"}

RefreshTokens == {"refresh-1", "refresh-2"}

\* expiresInSeconds: below, at and just above the refresh buffer, and the default
Lifetimes == {30, RefreshBufferSeconds, RefreshBufferSeconds + 1, DefaultExpiresInSeconds}

InitTokens ==
    /\ env \in {e \in ServerEnvs : Truthy(e.ONCALLS_BASE_URL)}
    /\ now = 0
    /\ ticks = 0
    /\ generated = 0
    /\ activeTransports = EmptyMap
    /\ authenticatedClients = {}
    /\ clients = EmptyMap
    /\ closed = {}
    /\ auth = NoAuthRun
    /\ pending = NoPending
    /\ http = NoExchange
    /\ session = NewOncallsClient("alice", "pw")
    /\ op = NoOp
    /\ FlowIdle
    /\ CallsIdle
    /\ DispatchIdle

\* a method of the token store was called with args and left the token data td
TokenStep(name, args, td, thrown) ==
    /\ session' = [session EXCEPT !.tokenManager = td]
    /\ op' = [NoOp EXCEPT !.name = name, !.before = session, !.at = now, !.args = args,
                          !.prev = op.name, !.ok = ~thrown,
                          !.err = IF thrown
                                  THEN Error(<<"No token data available. Call setTokens first.">>)
                                  ELSE NoError]
    /\ UNCHANGED flowVars
    /\ UNCHANGED callVars
    /\ UNCHANGED dispatchVars
    /\ UNCHANGED <<env, now, ticks, generated, activeTransports, authenticatedClients,
                   clients, closed, auth, pending, http>>

\* tokenManager.setTokens(accessToken, refreshToken, expiresInSeconds)
SetTokens ==
    \E access \in AccessTokens, refresh \in RefreshTokens, expiresInSeconds \in Lifetimes :
      TokenStep("setTokens", <<access, refresh, expiresInSeconds>>,
                setTokens(access, refresh, expiresInSeconds, now), FALSE)

\* tokenManager.updateAccessToken(accessToken, expiresInSeconds)
UpdateAccessToken ==
    \E access \in AccessTokens, expiresInSeconds \in Lifetimes :
      \E upd \in {updateAccessToken(session.tokenManager, access, expiresInSeconds, now)} :
        TokenStep("updateAccessToken", <<access, expiresInSeconds>>, upd.td, upd.thrown)

\* tokenManager.clear()
Clear == TokenStep("clear", <<>>, clear(session.tokenManager), FALSE)

NextTokens ==
    \/ SetTokens
    \/ UpdateAccessToken
    \/ Clear
    \/ Tick

SpecTokens == InitTokens /\ [][NextTokens]_vars

(***************************************************************************)
(* The OAuth endpoints alone (SpecOAuth): flows start, callbacks arrive    *)
(* with any query, the token endpoint answers the handlers that await it   *)
(* in any order, the clock advances and the sweep runs when it is due.     *)
(***************************************************************************)
\* req.query.state: missing, empty, never issued, or a value /oauth/start may draw
QueryStates == {Undef, "", "forged"} \cup {randomBytes(n) : n \in 1..MaxFlows}

Queries ==
    {Query(state, code, error) :
        state \in QueryStates, code \in {Undef, "code-1"}, error \in {Undef, "access_denied"}}

\* what the token endpoint answers to an authorization_code grant
TokenAnswers ==
    {OAuthTokenBody("oauth-access-1", "oauth-refresh-1"),
     HttpError(Undef, "HTTP 400: Bad Request"), NetworkError}

\* half a period of the sweep, and the age a state may reach
FlowSteps == {SweepIntervalMs \div 2, StateTtlMs}

\* the last moment before t at which the timer, next due at due < t, ran
LastDueBefore(due, t) == due + ((t - 1 - due) \div SweepIntervalMs) * SweepIntervalMs

\* how many token requests were sent for a state
Sent(state) == IF state \in DOMAIN tokenRequests THEN tokenRequests[state] ELSE 0

InitOAuth ==
    /\ env \in {e \in ServerEnvs : Truthy(e.ONCALLS_BASE_URL)}
    /\ now = 0
    /\ ticks = 0
    /\ generated = 0
    /\ activeTransports = EmptyMap
    /\ authenticatedClients = {}
    /\ clients = EmptyMap
    /\ closed = {}
    /\ auth = NoAuthRun
    /\ pending = NoPending
    /\ http = NoExchange
    /\ session = NoClient
    /\ op = NoOp
    /\ FlowIdle
    /\ CallsIdle
    /\ DispatchIdle

\* GET /oauth/start
StartFlow ==
    /\ issued < MaxFlows
    /\ \E state \in {randomBytes(issued + 1)} :
         /\ oauthStates' = oauthStart(oauthStates, state, now)
         /\ flow' = Flow("start", Query(state, Undef, Undef), FALSE, now, 0, now,
                         Handled(oauthStates, 200, Undef, FALSE))
    /\ issued' = issued + 1
    /\ UNCHANGED <<sweepDue, inflight, tokenRequests>>
    /\ UNCHANGED callVars
    /\ UNCHANGED dispatchVars
    /\ UNCHANGED <<env, now, ticks, generated, activeTransports, authenticatedClients,
                   clients, closed, auth, pending, http, session, op>>

\* GET /oauth/callback?state=..&code=..&error=.. arrives: the handler runs until it
\* has answered or awaits the token endpoint
CallbackWith(queries) ==
    /\ \E q \in queries :
         \E r \in {oauthCallback(oauthStates, q)} :
           /\ oauthStates' = r.states
           /\ inflight' = IF r.fetched THEN inflight \cup {q} ELSE inflight
           /\ tokenRequests' = IF r.fetched
                               THEN MapSet(tokenRequests, q.state, Sent(q.state) + 1)
                               ELSE tokenRequests
           /\ flow' = Flow("callback", q, q.state \in DOMAIN oauthStates,
                           IF q.state \in DOMAIN oauthStates
                           THEN oauthStates[q.state].createdAt ELSE 0,
                           Sent(q.state), now, r)
    /\ UNCHANGED <<issued, sweepDue>>
    /\ UNCHANGED callVars
    /\ UNCHANGED dispatchVars
    /\ UNCHANGED <<env, now, ticks, generated, activeTransports, authenticatedClients,
                   clients, closed, auth, pending, http, session, op>>

Callback == CallbackWith(Queries)

\* the token endpoint answers one of the handlers that await it
CallbackResume ==
    /\ \E q \in inflight, a \in TokenAnswers :
         /\ inflight' = inflight \ {q}
         /\ flow' = Flow("resume", q, FALSE, 0, Sent(q.state), now,
                         oauthCallbackResume(oauthStates, a))
    /\ UNCHANGED <<oauthStates, issued, sweepDue, tokenRequests>>
    /\ UNCHANGED callVars
    /\ UNCHANGED dispatchVars
    /\ UNCHANGED <<env, now, ticks, generated, activeTransports, authenticatedClients,
                   clients, closed, auth, pending, http, session, op>>

\* the timer of the sweep is due and runs
SweepTimer ==
    /\ now = sweepDue
    /\ oauthStates' = sweep(oauthStates, now)
    /\ sweepDue' = sweepDue + SweepIntervalMs
    /\ flow' = Flow("sweep", NoQuery, FALSE, 0, 0, now, Handled(oauthStates, 0, Undef, FALSE))
    /\ UNCHANGED <<issued, inflight, tokenRequests>>
    /\ UNCHANGED callVars
    /\ UNCHANGED dispatchVars
    /\ UNCHANGED <<env, now, ticks, generated, activeTransports, authenticatedClients,
                   clients, closed, auth, pending, http, session, op>>

\* time passes with no request: the sweeps that fall due meanwhile run, the one
\* due at the very end is left to SweepTimer
Elapse ==
    /\ ticks < MaxTicks
    /\ now < sweepDue
    /\ ticks' = ticks + 1
    /\ \E d \in FlowSteps :
         /\ now' = now + d
         /\ IF now + d > sweepDue
            THEN /\ oauthStates' = sweep(oauthStates, LastDueBefore(sweepDue, now + d))
                 /\ sweepDue' = LastDueBefore(sweepDue, now + d) + SweepIntervalMs
            ELSE UNCHANGED <<oauthStates, sweepDue>>
         /\ flow' = Flow("elapse", NoQuery, FALSE, 0, 0, now + d,
                         Handled(oauthStates, 0, Undef, FALSE))
    /\ UNCHANGED <<issued, inflight, tokenRequests>>
    /\ UNCHANGED callVars
    /\ UNCHANGED dispatchVars
    /\ UNCHANGED <<env, generated, activeTransports, authenticatedClients, clients, closed,
                   auth, pending, http, session, op>>

NextOAuth ==
    \/ StartFlow
    \/ Callback
    \/ CallbackResume
    \/ SweepTimer
    \/ Elapse

SpecOAuth == InitOAuth /\ [][NextOAuth]_vars

(***************************************************************************)
(* The OAuth endpoints with a running clock (SpecSweep): flows start and   *)
(* are given up, and as long as the table holds a state, time passes      *)
(* until the sweep is due, and the sweep runs.                             *)
(***************************************************************************)
\* time passes, while the table holds a state, until the timer is due
Wait ==
    /\ oauthStates # EmptyMap
    /\ now < sweepDue
    /\ now' = sweepDue
    /\ flow' = Flow("elapse", NoQuery, FALSE, 0, 0, sweepDue,
                    Handled(oauthStates, 0, Undef, FALSE))
    /\ UNCHANGED <<oauthStates, issued, sweepDue, inflight, tokenRequests>>
    /\ UNCHANGED dispatchVars
    /\ UNCHANGED callVars
    /\ UNCHANGED <<env, ticks, generated, activeTransports, authenticatedClients, clients,
                   closed, auth, pending, http, session, op>>

\* a callback presents a state that was issued, and neither a code nor an error:
\* it answers at once and nothing awaits the token endpoint
Abandon == CallbackWith({Query(randomBytes(n), Undef, Undef) : n \in 1..issued})

NextSweep ==
    \/ StartFlow
    \/ Abandon
    \/ SweepTimer
    \/ Wait

\* setInterval keeps firing and the clock keeps running while the process lives
SpecSweep == InitOAuth /\ [][NextSweep]_vars /\ WF_vars(Wait) /\ WF_vars(SweepTimer)

(***************************************************************************)
(* Tool invocations in progress (SpecCalls): two channels are open, a      *)
(* streamable one and a legacy one, each with the password session of its  *)
(* user.  tools/call requests for a tool that makes one get() arrive on    *)
(* them; every await of the code is a point where the handlers of other    *)
(* requests run, and the upstream answers in any order.                    *)
(***************************************************************************)
\* the route of a channel's messages runs authMiddleware, which awaits a login,
\* before its handler: /mcp does, /message does not
awaitsCredentials(type) == type = "streamable"

\* a tool invocation: its channel, the answer it awaits ("auth": the login of
\* authMiddleware; "refresh", "login", "api": the request its get() sent last;
\* "done"), whether that login was sent inside the try block of refreshToken(),
\* and how it ended
Invocation(ch, pc, inTry, result) == [ch |-> ch, pc |-> pc, inTry |-> inTry, result |-> result]

\* the request get() sends first on a password session: ensureAuthenticated()
\* and refreshToken() up to their first await, or the API request itself
firstRequest(c, t) ==
    IF ~hasTokens(c.tokenManager) THEN "login"
    ELSE IF ~needsRefresh(c.tokenManager, t) THEN "api"
    ELSE IF ~Truthy(getRefreshToken(c.tokenManager)) THEN "login"
    ELSE "refresh"

\* the logins the upstream answers while invocations are in progress
CallLogins == {LoginBody("true", "access-2", "refresh-2", Directory("alice"), Undef), LoginRefused}

\* the client of a channel alice opened at time 0
Established == authenticate(NewOncallsClient("alice", "pw"), 0, LoginAccepted("alice")).c

InitCalls ==
    /\ env \in {e \in ServerEnvs : Truthy(e.ONCALLS_BASE_URL)}
    /\ now = 0
    /\ ticks = 0
    /\ generated = 2
    /\ activeTransports = <<Transport("streamable", Established.userContext),
                            Transport("sse", Established.userContext)>>
    /\ authenticatedClients = {1}
    /\ clients = <<Established, Established>>
    /\ closed = {}
    /\ auth = NoAuthRun
    /\ pending = NoPending
    /\ http = NoExchange
    /\ session = NoClient
    /\ op = NoOp
    /\ FlowIdle
    /\ CallsIdle
    /\ DispatchIdle

\* the handler of an invocation on channel ch starts: tool.handler() calls
\* client.get(), which runs up to its first request
Begin(ch) == Invocation(ch, firstRequest(clients[ch], now), FALSE, "none")

\* a tools/call request arrives on a channel
Receive ==
    /\ Len(invocations) < MaxCalls
    /\ \E ch \in DOMAIN activeTransports :
         IF awaitsCredentials(activeTransports[ch].type)
         THEN /\ invocations' = Append(invocations, Invocation(ch, "auth", FALSE, "none"))
              /\ UNCHANGED started
         ELSE /\ invocations' = Append(invocations, Begin(ch))
              /\ started' = Append(started, Len(invocations) + 1)
    /\ UNCHANGED flowVars
    /\ UNCHANGED dispatchVars
    /\ UNCHANGED <<env, now, ticks, generated, activeTransports, authenticatedClients,
                   clients, closed, auth, pending, http, session, op>>

\* the login of authMiddleware is answered: next() and the handler, or 401
Authenticated(k) ==
    /\ invocations[k].pc = "auth"
    /\ \E a \in CallLogins :
         IF authenticate(NewOncallsClient("alice", "pw"), now, a).ok
         THEN /\ invocations' = [invocations EXCEPT ![k] = Begin(invocations[k].ch)]
              /\ started' = Append(started, k)
         ELSE /\ invocations' = [invocations EXCEPT ![k].pc = "done", ![k].result = "401"]
              /\ UNCHANGED started
    /\ UNCHANGED flowVars
    /\ UNCHANGED dispatchVars
    /\ UNCHANGED <<env, now, ticks, generated, activeTransports, authenticatedClients,
                   clients, closed, auth, pending, http, session, op>>

\* POST /refresh is answered: refreshToken() goes on after its await
Refreshed(k) ==
    /\ invocations[k].pc = "refresh"
    /\ \E a \in RefreshAnswers :
         \E upd \in {updateAccessToken(clients[invocations[k].ch].tokenManager,
                                       OrElse(a.access_token, a.token),
                                       DefaultExpiresInSeconds, now)} :
           IF a.kind = "2xx" /\ Truthy(OrElse(a.access_token, a.token)) /\ ~upd.thrown
           THEN /\ clients' = [clients EXCEPT ![invocations[k].ch].tokenManager = upd.td]
                /\ invocations' = [invocations EXCEPT ![k].pc = "api"]
           ELSE /\ invocations' =
                     [invocations EXCEPT ![k].pc = "login",
                                         ![k].inTry = a.kind # "network_error" /\ ~upd.thrown]
                /\ UNCHANGED clients
    /\ UNCHANGED started
    /\ UNCHANGED flowVars
    /\ UNCHANGED dispatchVars
    /\ UNCHANGED <<env, now, ticks, generated, activeTransports, authenticatedClients,
                   closed, auth, pending, http, session, op>>

\* POST /login is answered: authenticate() goes on after its await
LoggedIn(k) ==
    /\ invocations[k].pc = "login"
    /\ \E a \in CallLogins :
         \E r \in {authenticate(clients[invocations[k].ch], now, a)} :
           /\ clients' = [clients EXCEPT ![invocations[k].ch] = r.c]
           /\ invocations' =
                IF r.ok THEN [invocations EXCEPT ![k].pc = "api", ![k].inTry = FALSE]
                ELSE IF invocations[k].inTry
                THEN [invocations EXCEPT ![k].inTry = FALSE]
                ELSE [invocations EXCEPT ![k].pc = "done", ![k].result = "error"]
    /\ UNCHANGED started
    /\ UNCHANGED flowVars
    /\ UNCHANGED dispatchVars
    /\ UNCHANGED <<env, now, ticks, generated, activeTransports, authenticatedClients,
                   closed, auth, pending, http, session, op>>

\* the API request is answered: the tool call returns or throws
ApiAnswered(k) ==
    /\ invocations[k].pc = "api"
    /\ \E a \in ApiAnswers :
         invocations' = [invocations EXCEPT ![k].pc = "done",
                                            ![k].result = IF a.kind = "2xx" THEN "ok" ELSE "error"]
    /\ UNCHANGED started
    /\ UNCHANGED flowVars
    /\ UNCHANGED dispatchVars
    /\ UNCHANGED <<env, now, ticks, generated, activeTransports, authenticatedClients,
                   clients, closed, auth, pending, http, session, op>>

\* the upstream answers what invocation k awaits
Progress(k) == Authenticated(k) \/ Refreshed(k) \/ LoggedIn(k) \/ ApiAnswered(k)

NextCalls ==
    \/ Receive
    \/ \E k \in DOMAIN invocations : Authenticated(k)
    \/ \E k \in DOMAIN invocations : Refreshed(k)
    \/ \E k \in DOMAIN invocations : LoggedIn(k)
    \/ \E k \in DOMAIN invocations : ApiAnswered(k)
    \/ Tick

SpecCalls == InitCalls /\ [][NextCalls]_vars

(***************************************************************************)
(* One tool-dispatch endpoint (SpecDispatch): an MCP server is created for *)
(* a session, by createServer() of the stdio entry point or by the remote  *)
(* server for an OAuth client, and serves list-tools and call-tool         *)
(* requests one at a time while the clock advances.  The clock starts when *)
(* the server is created.                                                  *)
(***************************************************************************)
\* what the login endpoint may answer when the server starts
DispatchLogins(username) ==
    {LoginAccepted(username),
     LoginBody("true", "access-4", "refresh-4", NoData, Undef),
     LoginRefused,
     HttpError("Invalid credentials", "HTTP 401: Unauthorized"),
     NetworkError}

\* what the API may answer to a tool's call: success, failures with a JSON body
\* carrying a message, failures whose body is not JSON, no answer at all
DispatchApiAnswers ==
    {ApiBody,
     HttpError(Undef, "HTTP 403: Forbidden"),
     HttpError("Database unavailable", "HTTP 500: Internal Server Error"),
     HttpError(Undef, "HTTP 500: Internal Server Error"),
     HttpError("User not found", "HTTP 400: Bad Request"),
     NetworkError}

\* the credentials of the requests that open a channel: one carrier each, a
\* JWT-shaped bearer token together with header credentials, and none
DispatchCarriers ==
    {Carriers(Bearer(CHOOSE tok \in BearerTokens : tok.segments = 3 /\ tok.username # "alice"),
              Undef, Undef, Undef, Undef, Undef),
     Carriers(Bearer(CHOOSE tok \in BearerTokens : tok.username = "bob"),
              Undef, Undef, Undef, Undef, Undef),
     Carriers(NoAuthorization, "alice", "pw", Undef, Undef, Undef),
     Carriers(NoAuthorization, Undef, Undef, "bob", "pw", Undef),
     Carriers(NoAuthorization, Undef, Undef, Undef, Undef, "oauth-access"),
     Carriers(Bearer(CHOOSE tok \in BearerTokens : tok.segments = 3 /\ tok.username # "alice"),
              "alice", "pw", Undef, Undef, Undef),
     NoCarriers}

\* the answers a request's carriers can receive; a branch whose carrier is
\* absent makes no call
DispatchAuthAnswers(carriers) ==
    {Answers(bu, bl, hl, ql, qu, NoLogins, Unauthorized401, Unauthorized401, ApiBody) :
        bu \in IF carriers.authorization.token.segments = 3
               THEN UserInfoAnswers ELSE {Unauthorized401},
        bl \in IF Truthy(carriers.authorization.token.password)
               THEN DispatchLogins(carriers.authorization.token.username)
               ELSE {LoginRefused},
        hl \in IF Truthy(carriers.headerPassword)
               THEN DispatchLogins(carriers.headerUsername) ELSE {LoginRefused},
        ql \in IF Truthy(carriers.queryPassword)
               THEN DispatchLogins(carriers.queryUsername) ELSE {LoginRefused},
        qu \in IF Truthy(carriers.queryAccessToken)
               THEN UserInfoAnswers ELSE {Unauthorized401}}

\* request.params.name of the call-tool requests
DispatchNames == {"get-my-schedule", "list-members", "list-pending-volunteers", "delete-everything"}

\* the answers of the upstream to the calls a call-tool request causes; a
\* request for a tool that is not registered, or for an admin tool by a
\* non-admin, causes none, and the API is not called when
\* ensureAuthenticated() fails
DispatchAnswers(c, name, t) ==
    UNION {{[a EXCEPT !.api = api] :
               api \in IF \/ findTool(name) = NoTool
                          \/ findTool(name).adminOnly /\ ~c.userContext.isAdmin
                          \/ ~ensureAuthenticated(c, t, a).ok
                       THEN {ApiBody} ELSE DispatchApiAnswers}
              : a \in SessionAnswers(c, t, {ApiBody})}

InitDispatch ==
    /\ env \in {e \in ServerEnvs : Truthy(e.ONCALLS_BASE_URL)}
    /\ now = 0
    /\ ticks = 0
    /\ generated = 0
    /\ activeTransports = EmptyMap
    /\ authenticatedClients = {}
    /\ clients = EmptyMap
    /\ closed = {}
    /\ auth = NoAuthRun
    /\ pending = NoPending
    /\ http = NoExchange
    /\ session \in {NewOncallsClient("alice", "pw"), NewOncallsClient("bob", "pw")}
    /\ op = NoOp
    /\ FlowIdle
    /\ CallsIdle
    /\ DispatchIdle

\* what is recorded of the creation of a server: the client it was to be made
\* for, the upstream calls made for it, what was thrown, whether it was created
Creation(c, calls, err, created) ==
    Reply(IF created THEN "created" ELSE "failed", <<>>, err, c, calls, FALSE)

\* createServer(config): the client logs in, then the server and its handlers
\* are created; when the login fails runServer() rejects and the process exits
CreateServer ==
    /\ server = "none" /\ now = 0
    /\ \E a \in DispatchLogins(session.username) :
         \E r \in {authenticate(session, now, a)} :
           /\ session' = r.c
           /\ server' = IF r.ok THEN "stdio" ELSE "exited"
           /\ dispatched' = Dispatched(Body("createServer", Undef), session, now,
                                       Creation(r.c, r.calls, r.err, r.ok))
    /\ UNCHANGED flowVars
    /\ UNCHANGED callVars
    /\ UNCHANGED <<env, now, ticks, generated, activeTransports, authenticatedClients,
                   clients, closed, auth, pending, http, op>>

\* a request opening a channel of the remote server: authMiddleware runs, and
\* when it calls next() the route's handler creates the channel's server with
\* createMcpServer(req.oncallsClient)
CreateMcpServer ==
    /\ server = "none" /\ now = 0
    /\ \E carriers \in DispatchCarriers :
         \E ans \in DispatchAuthAnswers(carriers) :
           \E out \in {authMiddleware(Request("/mcp", "POST", carriers, 0, 0,
                                               Body("initialize", Undef)), env, now, ans)} :
             /\ session' = IF out.nextCalls > 0 THEN out.client ELSE session
             /\ server' = IF out.nextCalls > 0 THEN "remote" ELSE "refused"
             /\ dispatched' = Dispatched(Body("createMcpServer", Undef), session, now,
                                         Creation(out.client, out.calls, out.err,
                                                  out.nextCalls > 0))
    /\ UNCHANGED flowVars
    /\ UNCHANGED callVars
    /\ UNCHANGED <<env, now, ticks, generated, activeTransports, authenticatedClients,
                   clients, closed, auth, pending, http, op>>

\* the server's handler has served a request
Handle(body, reply) ==
    /\ session' = reply.c
    /\ dispatched' = Dispatched(body, session, now, reply)
    /\ UNCHANGED server
    /\ UNCHANGED flowVars
    /\ UNCHANGED callVars
    /\ UNCHANGED <<env, now, ticks, generated, activeTransports, authenticatedClients,
                   clients, closed, auth, pending, http, op>>

\* a tools/list request
ListToolsRequest ==
    /\ server \in {"stdio", "remote"}
    /\ Handle(Body("tools/list", Undef), ListTools(session))

\* a tools/call request
CallToolRequest ==
    /\ server \in {"stdio", "remote"}
    /\ \E name \in DispatchNames :
         \E ans \in DispatchAnswers(session, name, now) :
           \E reply \in {CallTool(session, name, now, ans)} :
             Handle(Body("tools/call", name), reply)

NextDispatch ==
    \/ CreateServer
    \/ CreateMcpServer
    \/ ListToolsRequest
    \/ CallToolRequest
    \/ Tick

SpecDispatch == InitDispatch /\ [][NextDispatch]_vars

(***************************************************************************)
(* Properties of authMiddleware (SpecAuth)                                 *)
(***************************************************************************)
\* whether the request carries what method m of the precedence list reads
CarrierPresent(req, m) ==
    CASE m = 1 -> IsBearer(req) /\ req.authorization.token.segments = 3
      [] m = 2 -> /\ IsBearer(req)
                  /\ Truthy(req.authorization.token.username)
                  /\ Truthy(req.authorization.token.password)
      [] m = 3 -> Truthy(req.headerUsername) /\ Truthy(req.headerPassword)
      [] m = 4 -> Truthy(req.queryUsername) /\ Truthy(req.queryPassword)
      [] m = 5 -> Truthy(req.queryAccessToken)

Configured == Truthy(env.ONCALLS_BASE_URL)

\* C5: every run of authMiddleware, whatever the request and the upstream's
\* answers, ends in exactly one outcome: next() called once with an
\* authenticated client attached and no response written, or next() not
\* called and exactly one response written, which is a 401, or a 500 exactly
\* when ONCALLS_BASE_URL is not configured.
C5_ExactlyOneOutcome ==
    auth.ran =>
      /\ auth.out.returned /\ ~auth.out.thrown
      /\ \/ /\ auth.out.nextCalls = 1
            /\ auth.out.responses = <<>>
            /\ auth.out.hasClient /\ isAuthenticated(auth.out.client)
         \/ /\ auth.out.nextCalls = 0
            /\ ~auth.out.hasClient
            /\ Len(auth.out.responses) = 1
            /\ auth.out.responses[1].status = IF Configured THEN 401 ELSE 500

\* a run in which two methods failed before a third one handed a client over
C5_Witness ==
    /\ auth.ran /\ auth.out.nextCalls = 1
    /\ Len(auth.out.attempts) = 3

\* a method's failure that ends the run: it succeeded, or it is method 3 or 4
Stops(a) == a.ok \/ a.method \in {3, 4}

\* C6, as stated: the only fall-through on failure is from method 1; a failed
\* method 2, 3 or 4 is the last one attempted and the request is answered 401.
C6_OnlyMethodOneFallsThrough ==
    (auth.ran /\ Configured) =>
      \A i \in 1..Len(auth.out.attempts) :
        (auth.out.attempts[i].method \in {2, 3, 4} /\ ~auth.out.attempts[i].ok) =>
          /\ i = Len(auth.out.attempts)
          /\ auth.out.nextCalls = 0
          /\ auth.out.responses[1].status = 401

\* C6, amended: the methods are tried in the order 1..5, each only when its
\* carrier is present; a success ends the run with that method's client; a
\* failure of method 3 or 4 ends it with a 401; a failure of method 1, 2 or 5
\* is swallowed and the next method whose carrier is present is tried; when
\* every attempted method failed the answer is a 401.
C6_Precedence ==
    (auth.ran /\ Configured) =>
      LET att == auth.out.attempts IN
      /\ \A i \in 1..Len(att) : CarrierPresent(auth.req, att[i].method)
      /\ \A i, j \in 1..Len(att) :
            i < j => att[i].method < att[j].method /\ ~Stops(att[i])
      /\ \A m \in 1..5 :
            (CarrierPresent(auth.req, m) /\ \A i \in 1..Len(att) : att[i].method # m)
              => \E i \in 1..Len(att) : att[i].method < m /\ Stops(att[i])
      /\ (\E i \in 1..Len(att) : att[i].ok) <=> auth.out.nextCalls = 1
      /\ (\A i \in 1..Len(att) : ~att[i].ok)
            => auth.out.nextCalls = 0 /\ auth.out.responses[1].status = 401

\* the base64 bearer's login failed and the headers' login succeeded
C6_Witness ==
    /\ auth.ran /\ Configured
    /\ auth.out.attempts = <<Attempt(2, FALSE), Attempt(3, TRUE)>>
    /\ auth.out.nextCalls = 1

\* the precondition of C7: a three-segment bearer token whose userinfo call
\* fails, and header credentials the login endpoint accepts
JwtRejectedHeadersValid ==
    /\ auth.ran /\ Configured
    /\ CarrierPresent(auth.req, 1) /\ auth.ans.bearerUserinfo.kind # "2xx"
    /\ CarrierPresent(auth.req, 3) /\ auth.ans.headerLogin = LoginAccepted(auth.req.headerUsername)

\* the endpoint is handed a password-grant session for the header user,
\* produced by method 3
HeaderSessionHandedOver ==
    /\ auth.out.nextCalls = 1 /\ auth.out.responses = <<>>
    /\ auth.out.attempts[Len(auth.out.attempts)] = Attempt(3, TRUE)
    /\ ~auth.out.client.oauth
    /\ auth.out.client.userContext.set
    /\ auth.out.client.userContext.username = auth.req.headerUsername

\* C7, as stated: with a JWT-shaped bearer token the OAuth path rejects and
\* valid username/password headers, the middleware falls through to method 3
\* and hands over a password-grant session for the header user.
C7_FallsThroughToHeaders == JwtRejectedHeadersValid => HeaderSessionHandedOver

\* C7, amended: the same, provided the login endpoint does not accept the
\* token's base64 decoding as a username:password pair (method 2 is tried in
\* between whenever the decoding has both fields).
C7_FallsThroughUnlessLegacyAccepts ==
    (JwtRejectedHeadersValid /\ auth.ans.bearerLogin.status # "true") =>
      /\ HeaderSessionHandedOver
      /\ auth.out.attempts[1] = Attempt(1, FALSE)
      /\ \A i \in 2..(Len(auth.out.attempts) - 1) : auth.out.attempts[i] = Attempt(2, FALSE)

\* the token failed as OAuth token and as base64 credentials, the headers won
C7_Witness ==
    /\ JwtRejectedHeadersValid
    /\ auth.out.attempts = <<Attempt(1, FALSE), Attempt(2, FALSE), Attempt(3, TRUE)>>
    /\ auth.out.client.userContext.username = "bob"

\* the 401 responses of a run
Is401(i) == i \in 1..Len(auth.out.responses) /\ auth.out.responses[i].status = 401

\* the header names the discovery document of the server the metadata
\* document reports as `resource`
PointsAtMetadata(h) ==
    /\ h.scheme = "Bearer"
    /\ h.resource_metadata =
         <<protectedResourceHandler(env).resource, "/.well-known/oauth-protected-resource">>

\* C8, as stated: every 401 of the middleware carries
\* WWW-Authenticate: Bearer resource_metadata="<server>/.well-known/oauth-protected-resource",
\* scope="<scopes>", <server> being the metadata document's `resource`.
C8_Every401CarriesScope ==
    auth.ran =>
      \A i \in 1..Len(auth.out.responses) :
        Is401(i) =>
          /\ PointsAtMetadata(auth.out.responses[i].wwwAuthenticate)
          /\ auth.out.responses[i].wwwAuthenticate.scope = OAuthScopes

\* C8, amended: every 401 carries a Bearer challenge whose resource_metadata
\* is "<server>/.well-known/oauth-protected-resource"; when no method
\* produced a session without throwing it also carries the scopes, and when a
\* method's credential exchange threw (method 3 or 4) it carries
\* error="invalid_token" and no scope.
C8_Every401PointsAtMetadata ==
    auth.ran =>
      \A i \in 1..Len(auth.out.responses) :
        Is401(i) =>
          LET r == auth.out.responses[i]
              threw == \E k \in 1..Len(auth.out.attempts) :
                          auth.out.attempts[k].method \in {3, 4} /\ ~auth.out.attempts[k].ok
          IN  /\ PointsAtMetadata(r.wwwAuthenticate)
              /\ IF threw
                 THEN /\ r.error = "invalid_token"
                      /\ r.wwwAuthenticate.error = "invalid_token"
                      /\ r.wwwAuthenticate.scope = Undef
                 ELSE /\ r.error = "unauthorized"
                      /\ r.wwwAuthenticate.error = Undef
                      /\ r.wwwAuthenticate.scope = OAuthScopes

\* a failed login with the headers' credentials, answered 401, on a server
\* whose URL is configured
C8_Witness ==
    /\ auth.ran /\ Is401(1)
    /\ Truthy(env.MCP_SERVER_URL)
    /\ auth.out.attempts = <<Attempt(3, FALSE)>>

(***************************************************************************)
(* Properties of the session (SpecSession)                                 *)
(***************************************************************************)
\* C9: when the login endpoint answers 2xx with a body whose status is not
\* the boolean true, authenticate() rejects with an "Authentication failed"
\* error and the client's token store and user context are as before the call.
C9_RefusedLoginChangesNothing ==
    (/\ op.name = "authenticate"
     /\ op.ans.login[1].kind = "2xx"
     /\ op.ans.login[1].status # "true") =>
      /\ ~op.ok
      /\ op.err.type = "Error" /\ op.err.message[1] = "Authentication failed: "
      /\ session.tokenManager = op.before.tokenManager
      /\ session.userContext = op.before.userContext

\* a fresh client was refused by a body that carried tokens all the same: it
\* stays without tokens and unauthenticated
C9_Witness ==
    /\ op.name = "authenticate"
    /\ op.ans.login[1].kind = "2xx" /\ op.ans.login[1].status = "false"
    /\ Truthy(op.ans.login[1].token)
    /\ op.before = NewOncallsClient("alice", "pw")
    /\ ~hasTokens(session.tokenManager) /\ ~isAuthenticated(session)

\* ensureAuthenticated() found a password session whose token is due for
\* refresh and that holds a refresh token
RefreshDue ==
    /\ op.name = "ensureAuthenticated"
    /\ ~op.before.oauth
    /\ hasTokens(op.before.tokenManager)
    /\ needsRefresh(op.before.tokenManager, op.at)
    /\ Truthy(getRefreshToken(op.before.tokenManager))

\* the refresh call failed: non-2xx, network error, or a 2xx body without token
RefreshFailed(r) == r.kind # "2xx" \/ ~Truthy(OrElse(r.access_token, r.token))

\* C10: when the refresh call of a password session fails, for whatever
\* reason, ensureAuthenticated() ends as the last login it made ends: it
\* resolves, with the client holding that login's tokens and user context,
\* when the login endpoint accepts the credentials, and otherwise rejects
\* with that login's error.
C10_RefreshFailureIsRelogin ==
    (RefreshDue /\ RefreshFailed(op.ans.refresh)) =>
      LET n == CountCalls(op.calls, "login")
          relogin == authenticate(op.before, op.at, op.ans.login[n])
      IN  /\ op.calls[1].ep = "refresh"
          /\ n \in {1, 2}
          /\ op.ok = relogin.ok
          /\ op.err = relogin.err
          /\ op.ok => session = relogin.c
          /\ Accepts(op.ans.login[1]) => op.ok /\ n = 1

\* the refresh call failed on the network and the login that followed
\* replaced the tokens
C10_Witness ==
    /\ RefreshDue /\ op.ans.refresh.kind = "network_error"
    /\ op.ok
    /\ getAccessToken(op.before.tokenManager) = "access-1"
    /\ getAccessToken(session.tokenManager) = "access-2"

\* a call of ensureAuthenticated(), get(), post() or put()
SessionCall == op.name \in {"ensureAuthenticated", "get"}

\* the call found an OAuth session whose access token is due for refresh and
\* whose refresh token is missing or empty
OAuthDueWithoutRefreshToken ==
    /\ SessionCall /\ op.before.oauth
    /\ hasTokens(op.before.tokenManager)
    /\ needsRefresh(op.before.tokenManager, op.at)
    /\ ~Truthy(getRefreshToken(op.before.tokenManager))

\* C11: an OAuth-built session without a refresh token whose access token is
\* due for refresh fails ensureAuthenticated(), and with it get/post/put, with
\* the "OAuth session expired" error, sends no request to any upstream
\* endpoint, and is left as it was.
C11_ExpiresWithoutUpstreamCall ==
    OAuthDueWithoutRefreshToken =>
      /\ ~op.ok
      /\ op.err = OAuthSessionExpired
      /\ op.calls = <<>>
      /\ session = op.before

\* a get() on such a session, an hour after it was built from a bearer token
C11_Witness ==
    /\ OAuthDueWithoutRefreshToken /\ op.name = "get"
    /\ getRefreshToken(op.before.tokenManager) = ""
    /\ op.at >= (DefaultExpiresInSeconds - RefreshBufferSeconds) * MsPerSecond

\* C12: whatever the upstream and the issuer answer, no call of
\* ensureAuthenticated/get/post/put on a session built by the OAuth-token path
\* sends a request to the password login endpoint or to the password refresh
\* endpoint, and the session stays an OAuth session.
C12_OAuthNeverUsesPasswordEndpoints ==
    (SessionCall /\ op.before.oauth) =>
      /\ \A i \in 1..Len(op.calls) : op.calls[i].ep \in {"oauth_token", "api"}
      /\ CountCalls(op.calls, "login") = 0 /\ CountCalls(op.calls, "refresh") = 0
      /\ session.oauth

\* a get() whose refresh_token grant was refused: the one call made is the one
\* to the issuer
C12_Witness ==
    /\ SessionCall /\ op.before.oauth /\ op.name = "get"
    /\ GrantFailed(op.calls)
    /\ Len(op.calls) = 1 /\ ~op.ok

\* C13: once a refresh_token grant of an OAuth session has failed, every call
\* of ensureAuthenticated/get/post/put on it, that one and all later ones,
\* fails with "OAuth session expired" and makes no API call.
C13_RefreshFailureIsTerminal ==
    (SessionCall /\ op.lapsed) =>
      /\ ~op.ok
      /\ op.err = OAuthSessionExpired
      /\ CountCalls(op.calls, "api") = 0

\* after a failed grant the next get() asked the issuer again, was given a new
\* access token and made its API call with it
C13_Witness ==
    /\ op.name = "get" /\ op.lapsed /\ ~GrantFailed(op.calls)
    /\ op.ok
    /\ CountCalls(op.calls, "oauth_token") = 1 /\ CountCalls(op.calls, "api") = 1
    /\ getAccessToken(session.tokenManager) = "oauth-access-2"

\* user id, group id, admin flag and view-requests flag
Identity(uc) == <<uc.docId, uc.groupId, uc.isAdmin, uc.viewReqs>>

\* C14: no call of ensureAuthenticated/get/post/put on an established session
\* changes its identity.
C14_IdentityNeverChanges ==
    (SessionCall /\ op.before.userContext.set) =>
      /\ session.userContext.set
      /\ Identity(session.userContext) = Identity(op.before.userContext)

\* the refresh of an admin's session failed and the login that followed
\* returned the account without the admin flag: the session, still the same
\* object, is no longer an admin's
C14_Witness ==
    /\ op.name = "get" /\ op.before.userContext.set /\ op.ok
    /\ op.before.userContext.isAdmin /\ ~session.userContext.isAdmin
    /\ op.before.userContext.docId = session.userContext.docId
    /\ CountCalls(op.calls, "refresh") = 1 /\ CountCalls(op.calls, "login") = 1

\* C15: whenever the session reports itself authenticated its access token is
\* a non-empty string.
C15_AuthenticatedHasAccessToken ==
    isAuthenticated(session) =>
      session.tokenManager.accessToken \notin {Undef, JsNull, ""}

\* a login answered {status: true, data: {...}} without a token field: the
\* session reports itself authenticated and holds no access token
C15_Witness ==
    /\ op.name = "authenticate" /\ op.ok
    /\ op.ans.login[1].token = Undef
    /\ isAuthenticated(session)
    /\ session.tokenManager.accessToken = Undef

(***************************************************************************)
(* Properties of the token store (SpecTokens)                              *)
(***************************************************************************)
\* the last call stored a token pair or a new access token and expiry
Stored == op.name = "setTokens" \/ (op.name = "updateAccessToken" /\ op.ok)

\* the expiresInSeconds of that call
StoredLifetime == op.args[Len(op.args)]

\* C16: needsRefresh() is true exactly when the store holds no tokens (nothing
\* stored yet, cleared, or an updateAccessToken that failed for lack of
\* tokens) or the clock has reached the time of the last setTokens /
\* updateAccessToken plus its lifetime minus 60 seconds; it is false right
\* after a store with a lifetime above 60 seconds and true right after clear().
C16_NeedsRefreshExactlyWhenDue ==
    op.name \in {"none", "setTokens", "updateAccessToken", "clear"} =>
      /\ Stored =>
           (needsRefresh(session.tokenManager, now)
              <=> now >= op.at + StoredLifetime * MsPerSecond - 60 * MsPerSecond)
      /\ (Stored /\ StoredLifetime > 60 /\ now = op.at)
           => ~needsRefresh(session.tokenManager, now)
      /\ ~Stored => needsRefresh(session.tokenManager, now)
      /\ op.name = "clear" => needsRefresh(session.tokenManager, op.at)

\* tokens stored for 61 seconds, and the clock one second later: the refresh
\* is due at exactly this instant
C16_Witness ==
    /\ Stored /\ StoredLifetime = 61
    /\ now = op.at + MsPerSecond
    /\ needsRefresh(session.tokenManager, now)
    /\ ~needsRefresh(session.tokenManager, op.at)

\* C17: updateAccessToken() throws, and leaves the store empty, when the store
\* holds no tokens (never set, or cleared since); when tokens are held it
\* replaces the access token and the expiry and keeps the refresh token.
C17_UpdateNeedsTokens ==
    op.name = "updateAccessToken" =>
      /\ op.prev \in {"none", "clear"} => ~op.ok
      /\ op.prev = "setTokens" => op.ok
      /\ op.ok <=> op.before.tokenManager.set
      /\ ~op.ok =>
           /\ op.err = Error(<<"No token data available. Call setTokens first.">>)
           /\ session.tokenManager = NoTokenData
           /\ ~hasTokens(session.tokenManager)
      /\ op.ok =>
           /\ session.tokenManager.set
           /\ session.tokenManager.accessToken = op.args[1]
           /\ session.tokenManager.expiresAt = op.at + op.args[2] * MsPerSecond
           /\ session.tokenManager.refreshToken = op.before.tokenManager.refreshToken

\* an update right after clear(), some time after tokens had been stored
C17_Witness ==
    /\ op.name = "updateAccessToken" /\ op.prev = "clear"
    /\ ~op.ok /\ op.at > 0
    /\ session.tokenManager = NoTokenData

(***************************************************************************)
(* Properties of the remote server (Spec)                                  *)
(***************************************************************************)
\* C1: a request is delivered to a session's transport only if authMiddleware
\* derived an identity for it and that identity is the one the session was
\* bound to when it was created.
C1_NoCrossTalk ==
    http.deliveredTo # 0 =>
      /\ http.authPassed
      /\ http.authIdentity.docId = http.boundIdentity.docId

\* a request authenticated as bob was served by the session bound to alice
C1_Witness ==
    /\ http.deliveredTo # 0 /\ http.authPassed
    /\ http.authIdentity.username = "bob" /\ http.boundIdentity.username = "alice"
    /\ http.body = Body("tools/call", "list-members")
    /\ http.reply.kind = "result"

\* C2: a request to an MCP endpoint that did not pass authMiddleware is
\* answered 401 and is not delivered to any transport.
C2_UnauthenticatedIsRejected ==
    (http.endpoint # "" /\ Configured /\ ~http.authPassed) =>
      /\ http.status = 401
      /\ http.deliveredTo = 0

\* a request without any credentials was delivered to a session on /message
C2_Witness ==
    /\ http.endpoint = "/message" /\ ~http.credentials /\ ~http.authRan
    /\ http.status = 202 /\ http.deliveredTo # 0
    /\ http.reply.handlerRan

\* a tools/call of an admin-only tool reached a session bound to an identity
\* without the admin flag
AdminToolCalledByNonAdmin ==
    /\ http.deliveredTo # 0
    /\ http.body.method = "tools/call"
    /\ findTool(http.body.name).adminOnly
    /\ ~http.boundIdentity.isAdmin

\* C3: such a call is answered, with a status other than 401, by an McpError
\* saying that admin access is required; the tool's handler is not run, no
\* upstream call is made, and the session stays registered with its client.
C3_AdminToolDenied ==
    AdminToolCalledByNonAdmin =>
      /\ http.status \in {200, 202}
      /\ http.reply.kind = "error"
      /\ http.reply.thrown = McpError("InternalError", <<"Admin access required for this tool">>)
      /\ ~http.reply.handlerRan
      /\ http.reply.calls = <<>>
      /\ http.deliveredTo \in DOMAIN activeTransports
      /\ http.deliveredTo \in DOMAIN clients
      /\ clients[http.deliveredTo].userContext = http.boundIdentity

\* bob, authenticated, called list-members on his own session
C3_Witness ==
    /\ AdminToolCalledByNonAdmin
    /\ http.authPassed /\ http.authIdentity = http.boundIdentity
    /\ http.boundIdentity.username = "bob"

Answered == http = NoExchange /\ http' # NoExchange

\* the protocol tag identifier sid is registered with, if it is registered
BoundTo(sid) == IF Registered(World, sid) THEN activeTransports[sid].type ELSE Undef

\* the identifier the route's handler looks up: the header on /mcp, the query
\* parameter on /message, and on POST /sse the query parameter when there is
\* one and the header otherwise
Consulted(h) ==
    IF h.endpoint = "/mcp" THEN h.headerSession
    ELSE IF h.endpoint = "/message" THEN h.querySession
    ELSE IF h.method # "POST" THEN 0
    ELSE IF h.querySession # 0 THEN h.querySession
    ELSE h.headerSession

\* the request passed the middleware of its route, if the route has one
ReachedHandler(h) == h.endpoint # "" /\ (h.authPassed \/ h.endpoint = "/message")

\* the request was refused with a 400, reached no transport, and the registry
\* is as it was
RefusedAsOtherProtocol ==
    /\ http'.status = 400
    /\ http'.deliveredTo = 0
    /\ http'.reply = NoExchange.reply
    /\ activeTransports' = activeTransports

\* C18, as stated: a request with a header id bound to a legacy channel on
\* /mcp or POST /sse, or a query id bound to a streamable channel on /message
\* or POST /sse, is refused with a 400, is delivered to no transport and
\* leaves the registry unchanged.
C18_OtherProtocolRefused ==
    [][(/\ Answered
        /\ \/ /\ http'.endpoint \in {"/mcp", "/sse"}
              /\ BoundTo(http'.headerSession) = "sse"
           \/ /\ http'.endpoint \in {"/message", "/sse"}
              /\ BoundTo(http'.querySession) = "streamable")
       => RefusedAsOtherProtocol]_vars

\* C18, amended: the same for a request that reached its route's handler,
\* the header id counting on POST /sse only when the request has no sessionId
\* query parameter (the handler does not read the header otherwise).
C18_ConsultedOtherProtocolRefused ==
    [][(/\ Answered /\ ReachedHandler(http')
        /\ \/ /\ http'.endpoint = "/mcp"
              /\ BoundTo(http'.headerSession) = "sse"
           \/ /\ http'.endpoint = "/sse" /\ http'.querySession = 0
              /\ BoundTo(http'.headerSession) = "sse"
           \/ /\ http'.endpoint \in {"/message", "/sse"}
              /\ BoundTo(http'.querySession) = "streamable")
       => RefusedAsOtherProtocol]_vars

\* a POST to /mcp whose mcp-session-id is that of a live SSE session, refused
\* while a streamable session exists too
C18_Witness ==
    /\ http.endpoint = "/mcp" /\ http.method = "POST" /\ http.authPassed
    /\ BoundTo(http.headerSession) = "sse"
    /\ http.status = 400 /\ http.deliveredTo = 0
    /\ \E sid \in DOMAIN activeTransports : activeTransports[sid].type = "streamable"

ClosedIsGone ==
    \A sid \in closed :
      /\ sid \notin DOMAIN activeTransports
      /\ sid \notin authenticatedClients
      /\ sid \notin DOMAIN clients

\* C20, as stated: a closed channel's identifier is in none of the maps, and
\* every request bearing it is answered 404 "Session not found" and reaches
\* no closed channel.
C20_ClosedIdAnswered404 ==
    /\ []ClosedIsGone
    /\ [][(Answered /\ (http'.headerSession \in closed \/ http'.querySession \in closed))
            => /\ http'.status = 404 /\ http'.error = "Session not found"
               /\ http'.deliveredTo \notin closed]_vars

\* C20, amended: a closed channel's identifier is in none of the maps in
\* every state from the step in which it closed on, so that every closed
\* channel is eventually, in fact at once and for good, absent from the
\* registry; a request that reached its route's handler and whose consulted
\* identifier is that of a closed channel is answered 404 "Session not found"
\* and delivered to no transport; no request is delivered to a closed channel.
C20_ClosedIdNotFound ==
    /\ []ClosedIsGone
    /\ [][Answered =>
            /\ http'.deliveredTo \notin closed
            /\ (ReachedHandler(http') /\ Consulted(http') \in closed)
                 => /\ http'.status = 404 /\ http'.error = "Session not found"
                    /\ http'.deliveredTo = 0]_vars

\* a streamable session was closed by a DELETE and a later POST to /mcp with
\* its identifier was answered 404, while an SSE channel had closed as well
C20_Witness ==
    /\ http.endpoint = "/mcp" /\ http.method = "POST" /\ http.authPassed
    /\ http.headerSession \in closed
    /\ http.status = 404 /\ http.error = "Session not found" /\ http.deliveredTo = 0
    /\ Cardinality(closed) = 2


(***************************************************************************)
(* Further properties of the server (Spec)                                 *)
(***************************************************************************)
\* the transport type the consulted identifier of a request must be bound to
ExpectedType(h) ==
    IF h.endpoint = "/message" \/ (h.endpoint = "/sse" /\ h.querySession # 0) THEN "sse"
    ELSE "streamable"

\* the protocol/session error a request to /mcp, POST /sse or /message runs
\* into with the registry as it is: its identifier is unknown, bound to a
\* transport of the other protocol, or missing from a request that does not
\* initialize a session
ProtocolCase(h) ==
    IF Consulted(h) # 0
    THEN IF Consulted(h) \notin DOMAIN activeTransports THEN "not_found"
         ELSE IF activeTransports[Consulted(h)].type # ExpectedType(h) THEN "wrong_protocol"
         ELSE "none"
    ELSE IF h.endpoint = "/message" \/ h.method # "POST" \/ ~isInitializeRequest(h.body)
    THEN "malformed"
    ELSE "none"

\* requests that reach the handler of their route
Probes ==
    {Request(route[1], "POST", NoCarriers, refs[1], refs[2], body) :
        route \in {<<"/mcp", 0>>, <<"/sse", 0>>, <<"/message", 0>>},
        refs \in SsePostRefs, body \in {Body("initialize", Undef), Body("tools/list", Undef)}}

\* what the handler of its route answers to a request that runs into a
\* protocol/session error: the HTTP status and the error.code of the body
Rejection(req) ==
    The({<<res.status, res.code>> :
          res \in {IF req.endpoint = "/mcp"
                   THEN McpHandler(World, req, NoClient, now, NoAuthRun.ans)
                   ELSE IF req.endpoint = "/message"
                   THEN MessageHandler(World, req, now, NoAuthRun.ans)
                   ELSE SsePostHandler(World, req, NoClient, now, NoAuthRun.ans)}})

\* C30: the answers to an unknown session identifier, to an identifier bound to
\* the wrong transport and to a malformed initialization are pairwise
\* distinguishable by their code: any two requests to /mcp, POST /sse or
\* /message that run into different ones of these errors get answers that
\* differ in status or error code.
C30_ErrorsDifferByCode ==
    \A r1 \in Probes, r2 \in Probes :
        (ProtocolCase(r1) \notin {"none", ProtocolCase(r2)} /\ ProtocolCase(r2) # "none")
            => Rejection(r1) # Rejection(r2)

\* /mcp has just answered a request whose identifier belongs to an SSE session
\* with 400 and code -32000, which is also what it answers to a request without
\* identifier that does not initialize
C30_Witness ==
    /\ http.endpoint = "/mcp" /\ http.authPassed
    /\ ProtocolCase(http) = "wrong_protocol"
    /\ <<http.status, http.code>> = <<400, ServerError>>
    /\ \E r \in Probes :
         /\ r.endpoint = "/mcp" /\ ProtocolCase(r) = "malformed"
         /\ Rejection(r) = <<http.status, http.code>>

\* the identifiers the step adds to the registry
Activated == (DOMAIN activeTransports') \ (DOMAIN activeTransports)

\* the message that opens a channel of its protocol: GET /sse for the legacy
\* protocol, a POST of an initialize request without identifier for the
\* streamable one
OpensChannel(h) ==
    \/ h.endpoint = "/sse" /\ h.method = "GET"
    \/ /\ h.endpoint \in {"/mcp", "/sse"} /\ h.method = "POST"
       /\ h.body.method = "initialize" /\ Consulted(h) = 0

\* the step answers a request that reached its handler, does not open a channel
\* and names no registered channel
StrayMessage ==
    /\ Answered /\ ReachedHandler(http') /\ ~OpensChannel(http')
    /\ Consulted(http') \notin DOMAIN activeTransports

\* an identifier enters the registry only in the step that answers the message
\* opening its channel, as a channel of that message's protocol
ActivatedByOpening ==
    \A sid \in Activated :
        /\ Answered /\ ReachedHandler(http') /\ OpensChannel(http')
        /\ Activated = {sid}
        /\ activeTransports'[sid].type = IF http'.method = "GET" THEN "sse" ELSE "streamable"
        /\ http'.method = "POST" => http'.deliveredTo = sid

\* C27 as stated: a channel is registered only by the message that opens it,
\* and a message that opens none and carries no identifier or an unregistered
\* one registers nothing and is rejected as malformed (400).
C27_StrayMessageMalformed ==
    [][/\ ActivatedByOpening
       /\ StrayMessage => /\ activeTransports' = activeTransports
                          /\ http'.deliveredTo = 0
                          /\ http'.status = 400]_vars

\* C27 (amended): a channel is registered only by the message that opens it
\* (GET /sse, or an initialize POST without identifier on /mcp or /sse), and a
\* message that opens none and names no registered channel registers nothing,
\* reaches no transport and is rejected: 400 when it carries no identifier, 404
\* when it carries an unregistered one.
C27_ChannelOpenedByInitialization ==
    [][/\ ActivatedByOpening
       /\ StrayMessage => /\ activeTransports' = activeTransports
                          /\ http'.deliveredTo = 0
                          /\ http'.status = IF Consulted(http') = 0 THEN 400 ELSE 404]_vars

\* with a channel registered, a tools/list message naming an identifier that is
\* not registered is answered 404 and the registry still holds that one channel
C27_Witness ==
    /\ ReachedHandler(http) /\ http.method = "POST" /\ http.body.method = "tools/list"
    /\ Consulted(http) # 0 /\ Consulted(http) \notin DOMAIN activeTransports
    /\ http.status = 404 /\ http.deliveredTo = 0
    /\ DOMAIN activeTransports = {1}

\* the step answers a request that was delivered to a channel registered
\* before the request arrived
FollowUp ==
    /\ Answered
    /\ http'.deliveredTo \in DOMAIN activeTransports

\* C28: a follow-up request on a registered channel creates no further
\* OncallsClient and performs no further credential exchange: no login or
\* userinfo lookup is made for it, and what answers it is the MCP server bound
\* to the client created when the channel was established.
C28_OneSessionPerConnection ==
    [][FollowUp => /\ ~http'.authPassed
                   /\ http'.authIdentity = NoUserContext
                   /\ http'.boundIdentity = activeTransports[http'.deliveredTo].owner]_vars

\* a tools/call on a registered streamable channel by the user who opened it:
\* the middleware logged in again and built another client for this request,
\* and the call was answered through the client of the channel
C28_Witness ==
    /\ http.endpoint = "/mcp" /\ http.body.method = "tools/call"
    /\ http.deliveredTo \in DOMAIN activeTransports
    /\ activeTransports[http.deliveredTo].type = "streamable"
    /\ http.authPassed
    /\ http.authIdentity = http.boundIdentity /\ http.authIdentity # NoUserContext
    /\ http.reply.handlerRan

(***************************************************************************)
(* Further properties of the session (SpecSession)                         *)
(***************************************************************************)
\* C24: during one ensureAuthenticated() call on a password session the login
\* endpoint is called at most once, also when the refresh call returns non-2xx
\* and the login that follows fails.
C24_AtMostOneLogin ==
    (op.name = "ensureAuthenticated" /\ ~op.before.oauth)
        => CountCalls(op.calls, "login") <= 1

\* the refresh call was answered non-2xx, the login that followed was refused,
\* and the same ensureAuthenticated() call logged in once more
C24_Witness ==
    /\ RefreshDue /\ op.ans.refresh.kind = "http_error"
    /\ Len(op.calls) = 3
    /\ op.calls[2].ep = "login" /\ op.calls[2].ans.kind # "2xx"
    /\ op.calls[3].ep = "login"

\* the API requests among the upstream calls of the last operation
ApiCalls == {i \in 1..Len(op.calls) : op.calls[i].ep = "api"}

\* C29: get(), post() and put() send their API request only after
\* ensureAuthenticated() completed successfully in the same call, and with the
\* access token held then: when ensureAuthenticated() resolves, hasTokens() is
\* true and needsRefresh() is false; when it rejects, no API request is sent
\* and the call rejects with its error.
C29_ApiRequestAfterAuthentication ==
    /\ (op.name = "ensureAuthenticated" /\ op.ok)
         => hasTokens(session.tokenManager) /\ ~needsRefresh(session.tokenManager, op.at)
    /\ op.name = "get"
         => \E ea \in {ensureAuthenticated(op.before, op.at, op.ans)} :
              IF ea.ok
              THEN /\ ApiCalls = {Len(op.calls)}
                   /\ SubSeq(op.calls, 1, Len(op.calls) - 1) = ea.calls
                   /\ session = ea.c
                   /\ hasTokens(session.tokenManager)
                   /\ ~needsRefresh(session.tokenManager, op.at)
                   /\ op.calls[Len(op.calls)].cred = getAccessToken(session.tokenManager)
              ELSE /\ ApiCalls = {}
                   /\ ~op.ok /\ op.err = ea.err /\ op.calls = ea.calls

\* a get() refreshed the due access token and then sent its API request with
\* the new one
C29_Witness ==
    /\ op.name = "get" /\ op.ok
    /\ needsRefresh(op.before.tokenManager, op.at)
    /\ Len(op.calls) = 2 /\ op.calls[1].ep = "refresh"
    /\ op.calls[2].ep = "api" /\ op.calls[2].cred = "access-r"
    /\ getAccessToken(op.before.tokenManager) # "access-r"

(***************************************************************************)
(* Properties of the OAuth endpoints (SpecOAuth)                           *)
(***************************************************************************)
\* a callback presented a state for which a token request had been sent
Replayed(f) == f.step = "callback" /\ f.sent >= 1

\* the answer 400 {error: 'invalid_state'}, no token request sent
InvalidState(f) == f.status = 400 /\ f.error = "invalid_state" /\ ~f.fetched

\* the handler went past the state check: it sent the token request or missed the code
Accepted(f) == f.fetched \/ f.error = "missing_code"

\* the age of the presented state when the handler looked it up
Age(f) == f.at - f.createdAt

\* C21 as stated: for every state at most one token request is ever sent, and
\* every callback that presents a state for which one was sent is answered
\* invalid_state.
C21_LaterCallbackInvalidState ==
    /\ \A s \in DOMAIN tokenRequests : tokenRequests[s] <= 1
    /\ Replayed(flow) => InvalidState(flow)

\* C21 (amended): for every state at most one callback passes the state check
\* and sends a token request, whatever callbacks are awaiting the token endpoint
\* meanwhile; a later callback with that state sends none and is answered 400:
\* invalid_state, or the error of its own error parameter when it carries one.
C21_StateSingleUse ==
    /\ \A s \in DOMAIN tokenRequests : tokenRequests[s] <= 1
    /\ Replayed(flow)
         => IF Truthy(flow.query.error)
            THEN flow.status = 400 /\ flow.error = flow.query.error /\ ~flow.fetched
            ELSE InvalidState(flow)

\* a callback is refused as invalid_state while the one that consumed its state
\* still awaits the token endpoint
C21_Witness ==
    /\ Replayed(flow) /\ InvalidState(flow)
    /\ Sent(flow.query.state) = 1
    /\ \E q \in inflight : q.state = flow.query.state

\* C22: a callback without error parameter whose state is missing, unknown,
\* already consumed or older than ten minutes is answered 400 invalid_state and
\* sends no token request.
C22_BadStateIsInvalidState ==
    (/\ flow.step = "callback"
     /\ ~Truthy(flow.query.error)
     /\ (~flow.had \/ Age(flow) > StateTtlMs))
        => InvalidState(flow)

\* a callback whose state is older than ten minutes sent a token request
C22_Witness ==
    /\ flow.step = "callback" /\ flow.had /\ Age(flow) > StateTtlMs
    /\ flow.fetched /\ flow.status = 0

\* C23: a state is never accepted more than ten minutes after /oauth/start
\* created it: every callback that passes the state check presents a state no
\* older than that.
C23_AcceptedWithinTtl ==
    (flow.step = "callback" /\ Accepted(flow)) => Age(flow) <= StateTtlMs

\* a state older than ten minutes passed the state check between two sweeps,
\* after a sweep had already run past its tenth minute
C23_Witness ==
    /\ flow.step = "callback" /\ flow.had /\ ~Truthy(flow.query.error)
    /\ Age(flow) > StateTtlMs
    /\ sweepDue > flow.createdAt + StateTtlMs
    /\ flow.query.state \notin DOMAIN oauthStates


(***************************************************************************)
(* Properties of the invocations in progress (SpecCalls)                   *)
(***************************************************************************)
\* the invocations on channel ch that await the answer to a login or refresh
\* request sent on the channel's session
Exchanging(ch) ==
    {k \in DOMAIN invocations :
        invocations[k].ch = ch /\ invocations[k].pc \in {"login", "refresh"}}

\* C25: for one session at most one login or refresh exchange is in flight at
\* any time, also when several tool calls arrive on its connection while the
\* token is due for refresh.
C25_OneExchangeInFlight ==
    \A ch \in DOMAIN clients : Cardinality(Exchanging(ch)) <= 1

\* two tool calls on the legacy channel each sent a refresh request for the
\* same due token and both await the answer
C25_Witness ==
    /\ Len(invocations) = 2
    /\ invocations[1].ch = 2 /\ invocations[2].ch = 2
    /\ invocations[1].pc = "refresh" /\ invocations[2].pc = "refresh"
    /\ needsRefresh(clients[2].tokenManager, now)

\* the handler of invocation k has started
Started(k) == \E i \in DOMAIN started : started[i] = k

\* the handler of invocation i started before that of invocation j
StartedBefore(i, j) ==
    \E a \in DOMAIN started, b \in DOMAIN started : a < b /\ started[a] = i /\ started[b] = j

\* the invocations of one channel started in the order they arrived, those the
\* middleware refused apart
InArrivalOrder(ch) ==
    \A i \in DOMAIN invocations, j \in DOMAIN invocations :
        (/\ i < j
         /\ invocations[i].ch = ch /\ invocations[j].ch = ch
         /\ invocations[i].result # "401"
         /\ Started(j)) => StartedBefore(i, j)

\* what an unfinished invocation awaits can be answered, whatever the other
\* invocations await
NeverBlocked ==
    \A k \in DOMAIN invocations : invocations[k].pc # "done" => ENABLED Progress(k)

\* C26: on every channel the handlers start in the order in which
\* the invocations arrived, and no invocation waits for another one.
C26_ArrivalOrderOnEveryChannel ==
    /\ \A ch \in DOMAIN activeTransports : InArrivalOrder(ch)
    /\ NeverBlocked

\* the second call on the streamable channel is with its handler while the
\* first, which arrived before it, still awaits the login of authMiddleware
C26_Witness ==
    /\ Len(invocations) = 2
    /\ invocations[1].ch = 1 /\ invocations[2].ch = 1
    /\ invocations[1].pc = "auth"
    /\ started = <<2>>

(***************************************************************************)
(* Properties of the tool-dispatch endpoint (SpecDispatch)                 *)
(***************************************************************************)
\* values a handler may throw: errors of the client, of the runtime, of the
\* tools, and a value that is no Error
ThrownValues ==
    {Error(<<"Unknown tool: ", "delete-everything">>),
     Error(<<"API request failed: ", "HTTP 403: Forbidden">>),
     Error(<<"API request failed: ", "Database unavailable">>),
     Error(<<"Authentication failed: ", "Invalid credentials">>),
     FetchFailed, PropertyOfUndefined, OAuthSessionExpired, NotAuthenticated,
     McpError("InvalidRequest", <<"Admin access required. ">>),
     McpError("InternalError", <<"HTTP 401: Unauthorized">>),
     [type |-> "string", code |-> "none", message |-> <<"thrown string">>]}

\* the request got its API answer: the last upstream call is a 2xx of the API
ApiAnswered2xx(d) ==
    /\ Len(d.calls) > 0
    /\ d.calls[Len(d.calls)].ep = "api"
    /\ d.calls[Len(d.calls)].ans.kind = "2xx"

\* a failure was raised while the call-tool request was served: the tool is
\* unknown or gated, or its upstream call did not come back with a 2xx
FailureRaised(d) ==
    d.body.method = "tools/call" /\ (~d.handlerRan \/ ~ApiAnswered2xx(d))

\* the tool whose handler catches the failures of its upstream call itself
CatchesItsFailures(d) == d.handlerRan /\ d.body.name = "list-pending-volunteers"

\* C31: every failure raised while a list-tools or call-tool request is served
\* reaches the client as an McpError.
C31_EveryFailureIsMcpError ==
    FailureRaised(dispatched) =>
        dispatched.kind = "error" /\ dispatched.thrown.type = "McpError"

\* C31 (amended): whatever leaves a handler as an error is an McpError, no raw
\* exception crosses; every failure raised leaves the handler as an error,
\* except the failures of the upstream call of list-pending-volunteers, which
\* that tool catches and returns as a result; a request without failure gives a
\* result; toMcpError turns every thrown value into an McpError and returns an
\* McpError as it is.
C31_WhatIsThrownIsMcpError ==
    /\ dispatched.kind = "error" => dispatched.thrown.type = "McpError"
    /\ FailureRaised(dispatched) =>
         (dispatched.kind = "error" <=> ~CatchesItsFailures(dispatched))
    /\ (dispatched.body.method \in {"tools/list", "tools/call"} /\ ~FailureRaised(dispatched)) =>
         dispatched.kind = "result"
    /\ \A e \in ThrownValues :
         /\ toMcpError(e).type = "McpError"
         /\ e.type = "McpError" => toMcpError(e) = e

\* the API answered 500 to a tool's call and the client got an McpError
C31_Witness ==
    /\ dispatched.body = Body("tools/call", "get-my-schedule")
    /\ Len(dispatched.calls) = 1
    /\ dispatched.calls[1].ans = HttpError("Database unavailable", "HTTP 500: Internal Server Error")
    /\ dispatched.kind = "error"
    /\ dispatched.thrown = McpError("InternalError", <<"API request failed: ", "Database unavailable">>)

\* the API answered the tool's call with a non-2xx response
ApiRefused(d) ==
    /\ d.body.method = "tools/call" /\ d.handlerRan
    /\ Len(d.calls) > 0
    /\ d.calls[Len(d.calls)].ep = "api"
    /\ d.calls[Len(d.calls)].ans.kind = "http_error"

\* what the upstream said: the message of the body when it has one, else the
\* status line
UpstreamText(d) ==
    IF Truthy(d.calls[Len(d.calls)].ans.message)
    THEN d.calls[Len(d.calls)].ans.message
    ELSE d.calls[Len(d.calls)].ans.statusLine

\* the text holds one of the patterns for which toMcpError has a message of
\* its own
Recognised(text) == \E p \in PartsContaining : p[1] = text

\* the messages toMcpError puts in the place of a recognised one
OwnMessages ==
    {<<"Authentication failed. Check your OnCalls credentials.">>,
     <<"Permission denied. You may not have access to this resource.">>,
     <<"Resource not found.">>}

Bound == server \in {"stdio", "remote"}

\* the last credential exchange made for the session was accepted: the login
\* endpoint accepted and described the account, or userinfo answered 2xx
LastExchangeAccepted(d) ==
    /\ Len(d.calls) > 0
    /\ IF d.calls[Len(d.calls)].ep = "login"
       THEN Accepts(d.calls[Len(d.calls)].ans)
       ELSE d.calls[Len(d.calls)].ep = "userinfo" /\ d.calls[Len(d.calls)].ans.kind = "2xx"

\* C33: a session bound to a tool-dispatch endpoint has an Identity and tokens
\* from the moment it is bound; a server is created exactly when the last
\* login or userinfo lookup made for it succeeded; requests are served only
\* by a created server, and no handler hits "Not authenticated".
C33_BoundSessionHasIdentity ==
    /\ Bound => session.userContext.set /\ hasTokens(session.tokenManager)
    /\ dispatched.body.method \in {"createServer", "createMcpServer"} =>
         /\ dispatched.kind = "created" <=> LastExchangeAccepted(dispatched)
         /\ Bound <=> dispatched.kind = "created"
    /\ dispatched.body.method \in {"tools/list", "tools/call"} => Bound
    /\ dispatched.thrown # NotAuthenticated

\* the userinfo lookup for a bearer token failed and the header credentials
\* sent with it were refused: no server was created
C33_Witness ==
    /\ server = "refused"
    /\ dispatched.kind = "failed"
    /\ Len(dispatched.calls) = 3
    /\ dispatched.calls[1].ep = "userinfo" /\ dispatched.calls[1].ans.kind = "http_error"
    /\ dispatched.calls[3].ep = "login" /\ ~Accepts(dispatched.calls[3].ans)

\* the names a call-tool request may carry: every registered name and one
\* that is not registered
AllNames == {allTools[i].name : i \in 1..Len(allTools)} \cup {"delete-everything"}

\* a call-tool request of client c for name passes the lookup and the admin
\* check of the handler: the tool's handler is run
PassesGate(c, name) == CallTool(c, name, now, NoAuthRun.ans).handlerRan

\* the list-tools answer to client c holds a tool of that name
Listed(c, name) == \E i \in 1..Len(ListTools(c).tools) : ListTools(c).tools[i] = name

\* C36: for every session and every tool name, a call-tool request passes the
\* dispatch gate if and only if the list-tools answer for that session holds
\* a tool of that name; a call that was served ran the tool's handler if and
\* only if the tool was listed for the session as it was then.
C36_CallableIffListed ==
    /\ Bound => \A name \in AllNames : PassesGate(session, name) <=> Listed(session, name)
    /\ dispatched.body.method = "tools/call" =>
         (dispatched.handlerRan <=> Listed(dispatched.before, dispatched.body.name))

\* a non-administrator named an admin tool: it is not listed for that session
\* and the call was refused before the tool's handler
C36_Witness ==
    /\ dispatched.body = Body("tools/call", "list-members")
    /\ ~dispatched.before.userContext.isAdmin
    /\ ~Listed(dispatched.before, "list-members")
    /\ ~dispatched.handlerRan
    /\ dispatched.kind = "error"
    /\ Len(dispatched.calls) = 0

(***************************************************************************)
(* The session after a refresh and a login that failed (SpecSession)       *)
(***************************************************************************)
\* the logins among the upstream calls of the last operation
LoginCalls == {i \in 1..Len(op.calls) : op.calls[i].ep = "login"}

\* the last operation found an authenticated password session due for
\* refresh, its refresh call failed, it fell back to the login, and it
\* rejected without a login that went through
BothFailed ==
    /\ op.name \in {"ensureAuthenticated", "get"}
    /\ ~op.before.oauth
    /\ isAuthenticated(op.before)
    /\ Len(op.calls) >= 2
    /\ op.calls[1].ep = "refresh" /\ RefreshFailed(op.calls[1].ans)
    /\ LoginCalls # {}
    /\ ApiCalls = {}
    /\ ~op.ok

\* the session is as it was before the last operation, and a next call finds
\* it authenticated and due for refresh
AsBefore ==
    /\ session.tokenManager = op.before.tokenManager
    /\ session.userContext = op.before.userContext
    /\ isAuthenticated(session)
    /\ needsRefresh(session.tokenManager, now)

\* C37: when the refresh of a password session and the login it falls back to
\* both fail, the token store and the user context are as before the call: the
\* session keeps its stale tokens, is still authenticated, and its next call
\* finds the token due for refresh again.
C37_FailedFallbackChangesNothing == BothFailed => AsBefore

\* the same for the calls in which every login was answered non-2xx, with a
\* status other than true, or not at all
RefusedFallbackChangesNothing ==
    (/\ BothFailed
     /\ \A i \in LoginCalls : ~(op.calls[i].ans.kind = "2xx" /\ op.calls[i].ans.status = "true"))
        => AsBefore

\* the refresh was refused, the login endpoint accepted the credentials with a
\* body that has no data object, and the call rejected: the session holds the
\* tokens of that login and its token is no longer due for refresh
C37_Witness ==
    /\ BothFailed
    /\ op.err = PropertyOfUndefined
    /\ getAccessToken(session.tokenManager) = "access-4"
    /\ getAccessToken(op.before.tokenManager) # "access-4"
    /\ session.userContext = op.before.userContext
    /\ ~needsRefresh(session.tokenManager, now)

(***************************************************************************)
(* The lifetime the session gives its tokens (SpecSession)                 *)
(***************************************************************************)
\* the upstream call obtained a token: an accepted login, a refresh answered
\* with a token, a refresh_token grant answered 2xx
WentThrough(call) ==
    \/ call.ep = "login" /\ Accepts(call.ans)
    \/ call.ep = "refresh" /\ ~RefreshFailed(call.ans)
    \/ call.ep = "oauth_token" /\ call.ans.kind = "2xx"

\* the last operation obtained a token
Renewed == \E i \in 1..Len(op.calls) : WentThrough(op.calls[i])

\* the token store expires 3600 seconds after moment t, and its token becomes
\* due for refresh 3540 seconds after t, not a millisecond earlier
OneHourFrom(t) ==
    /\ session.tokenManager.expiresAt = t + 3600 * 1000
    /\ needsRefresh(session.tokenManager, t + 3540 * 1000)
    /\ ~needsRefresh(session.tokenManager, t + 3540 * 1000 - 1)

\* C39: whatever lifetime the upstream or the issuer announces, after a login,
\* the construction of an OAuth session, a password refresh or an OAuth refresh
\* that went through the token store expires 3600 seconds after that moment and
\* the next refresh is due 3540 seconds after it; an OAuth refresh replaces
\* the refresh token only when the issuer returns one.
C39_LifetimeIsOneHour ==
    /\ Renewed => OneHourFrom(op.at)
    /\ (op = NoOp /\ session.oauth) => OneHourFrom(0)
    /\ (op.before.oauth /\ Renewed) =>
          getRefreshToken(session.tokenManager) =
              IF Truthy(op.calls[1].ans.refresh_token)
              THEN op.calls[1].ans.refresh_token
              ELSE getRefreshToken(op.before.tokenManager)

\* the issuer answered the refresh_token grant of an OAuth session with a token
\* that lasts two hours and with no refresh token: the store expires an hour
\* after the call and holds the refresh token it held
C39_Witness ==
    /\ op.before.oauth
    /\ op.at > 0
    /\ Renewed
    /\ op.calls[1].ans.expires_in = 2 * 3600
    /\ ~Truthy(op.calls[1].ans.refresh_token)
    /\ session.tokenManager.expiresAt = op.at + 3600 * 1000
    /\ getRefreshToken(session.tokenManager) = "oauth-refresh-1"

(***************************************************************************)
(* The two maps of the remote server (Spec)                                *)
(***************************************************************************)
\* the registry identifiers whose transport is a Streamable HTTP one
StreamableIds == {sid \in DOMAIN activeTransports : activeTransports[sid].type = "streamable"}

\* C35: in every reachable state the keys of the authenticated-client map are
\* the registry identifiers whose transport is a Streamable HTTP one: both
\* entries are inserted on session-initialised and deleted on close, and a
\* legacy SSE channel never has an authenticated-client entry.
C35_ClientKeysAreStreamableIds == authenticatedClients = StreamableIds

\* a Streamable HTTP session was initialised and has just been closed by a
\* DELETE, while a legacy SSE channel is registered
C35_Witness ==
    /\ http.method = "DELETE"
    /\ http.status = 200
    /\ http.deliveredTo \in closed
    /\ \E sid \in DOMAIN activeTransports : activeTransports[sid].type = "sse"

(***************************************************************************)
(* What a callback does to the state table (SpecOAuth)                     *)
(***************************************************************************)
\* the table after the step is the table before it without state
TableLoses(state) ==
    /\ state \in DOMAIN oauthStates
    /\ DOMAIN oauthStates' = (DOMAIN oauthStates) \ {state}
    /\ \A s \in DOMAIN oauthStates' : oauthStates'[s] = oauthStates[s]

\* a callback deletes the state of its query when the query carries no error
\* and the table holds the state, whether or not it carries a code, and
\* otherwise leaves the table as it is; the answer of the token endpoint
\* leaves the table as it is
CallbackConsumes ==
    /\ (flow'.step = "callback") =>
          IF ~Truthy(flow'.query.error) /\ flow'.query.state \in DOMAIN oauthStates
          THEN TableLoses(flow'.query.state)
          ELSE oauthStates' = oauthStates
    /\ (flow'.step = "resume") => oauthStates' = oauthStates

\* C38: a callback deletes a state entry if and only if it carries no error
\* parameter and its state is in the table: the entry is consumed as soon as
\* validation passes, also when the code is missing or the token exchange
\* fails later, and a callback with an error parameter leaves the table
\* unchanged.
C38_ConsumedIffValidated == [][CallbackConsumes]_vars

\* a callback carrying an error and a state that the table holds has left the
\* state in the table, after another state was consumed by a callback that
\* went on to the token endpoint
C38_Witness ==
    /\ flow.step = "callback"
    /\ Truthy(flow.query.error)
    /\ flow.had
    /\ flow.query.state \in DOMAIN oauthStates
    /\ \E n \in 1..issued :
         randomBytes(n) \notin DOMAIN oauthStates /\ Sent(randomBytes(n)) = 1

(***************************************************************************)
(* Properties of the sweep (SpecSweep)                                     *)
(***************************************************************************)
\* the states the last step removed from the table
Removed == (DOMAIN oauthStates) \ (DOMAIN oauthStates')

\* a step removes states as a sweep only when the timer ran, and then only
\* states that were older than the TTL when it ran
SweepSpares ==
    (flow'.step \in {"sweep", "elapse"}) =>
        \A s \in Removed :
            /\ sweepDue' # sweepDue
            /\ (sweepDue' - SweepIntervalMs) - oauthStates[s].createdAt > StateTtlMs

\* no state in the table is older than the TTL plus one sweep period
NoneOverdue ==
    \A s \in DOMAIN oauthStates : now - oauthStates[s].createdAt <= StateTtlMs + SweepIntervalMs

\* C34: a state that no callback consumes is eventually deleted by the sweep,
\* at the latest when it is as old as the TTL plus one sweep period, and the
\* sweep never deletes a state that is not older than the TTL.
C34_AbandonedStateIsSwept ==
    /\ \A n \in 1..MaxFlows :
         (randomBytes(n) \in DOMAIN oauthStates) ~> (randomBytes(n) \notin DOMAIN oauthStates)
    /\ []NoneOverdue
    /\ [][SweepSpares]_vars

\* the only state, created a whole number of sweep periods before the TTL ran
\* out and never presented to a callback, has just been deleted by the sweep,
\* at the age of the TTL plus a sweep period
C34_Witness ==
    /\ flow.step = "sweep"
    /\ issued = 1
    /\ oauthStates = EmptyMap
    /\ tokenRequests = EmptyMap
    /\ now = StateTtlMs + SweepIntervalMs

====
